---- MODULE Spec2Model ----
(***************************************************************************)
(* State-machine model of the numerical kernels of the repository:         *)
(*   - SkylineInplaceLU   (src/unnamed/part_009)                           *)
(*   - SelfAdjointEigenSolver (src/unnamed/part_000)                       *)
(*   - ei_dogleg          (src/unnamed/part_010)                           *)
(*   - AlignedBox         (src/unnamed/part_001)                           *)
(*   - the deflation loop and ei_tridiagonal_qr_step of the eigen solver,  *)
(*     on magnitude classes (src/unnamed/part_000)                         *)
(* Scalars are exact rationals <<num, den>> (den > 0, lowest terms); the   *)
(* pair <<1, 0>> stands for a non-finite value (the result of a division   *)
(* by zero and everything computed from it).                               *)
(***************************************************************************)
EXTENDS Integers, Sequences, FiniteSets, TLC

(***************************************************************************)
(* Bounds of the model.                                                    *)
(***************************************************************************)
MaxN == 3

(***************************************************************************)
(* State.                                                                  *)
(***************************************************************************)
\* a SkylineInplaceLU object and its caller
VARIABLES
  lu_pc,          \* "idle": matrix built, no LU object yet; "ready": the
                  \* constructor has returned; "aborted": an ei_assert failed
  m_lu,           \* the caller's matrix, held by reference (MatrixType& m_lu)
  lu_A,           \* the matrix as it was before the constructor ran (dense)
  m_precision,
  m_flags,
  m_status,
  m_succeeded,
  lu_b,           \* right-hand side of the last solve
  lu_x,           \* the caller's result vector *x
  lu_transposed,  \* `transposed` argument of the last solve
  lu_ret,         \* return value of the last solve ("none" before any call)
  lu_stored       \* history: [precision, flags] as last passed to the
                  \* constructor or a setter (precision: the default the
                  \* constructor computes)

luVars == <<lu_pc, m_lu, lu_A, m_precision, m_flags, m_status, m_succeeded,
            lu_b, lu_x, lu_transposed, lu_ret, lu_stored>>

\* a SelfAdjointEigenSolver object
VARIABLES
  eig_pc,            \* "none": no solver object; "idle": a constructor or
                     \* compute has returned; "aborted": an assertion failed
  m_eivec,           \* sequence of columns: m_eivec[j][i] = coefficient (i, j)
  m_eivalues,
  m_subdiag,
  m_eigenvectorsOk,
  eig_requested,     \* history: computeEigenvectors of the most recent
                     \* compute ("none" before any compute)
  eig_qr,            \* history: [vals, vecs] as the most recent compute
                     \* held them when it reached the sort (n > 1) or
                     \* returned (n = 1)
  eig_ret,           \* outcome of the last eigenvectors() call since the
                     \* last compute: "none", "returned", "assert"
  eig_call           \* history of the most recent compute: its kind
                     \* ("compute", "generalized"), its arguments, what the
                     \* object was when the call began (prior), the members
                     \* whose value a call that failed an assertion had
                     \* changed (written), the phases that ran

eigVars == <<eig_pc, m_eivec, m_eivalues, m_subdiag, m_eigenvectorsOk,
             eig_requested, eig_qr, eig_ret, eig_call>>

VARIABLES
  dl_pc,             \* "none": no call; "entry": a caller is about to call
                     \* ei_dogleg; "returned"; "aborted": an assert failed
  dl_r, dl_diag, dl_qtb, dl_delta, dl_x,    \* the arguments
  dl_entry,          \* history: the arguments at entry
  dl_out             \* history: the record dogleg() describes

dlVars == <<dl_pc, dl_r, dl_diag, dl_qtb, dl_delta, dl_x, dl_entry, dl_out>>

\* the boxes of the AlignedBox test (src/test/alignedbox.cpp lines 45-57)
VARIABLES
  box_pc,            \* "none": no box; "built": b0 constructed; "copied":
                     \* b2 = b0 extended by b1; "clamped": b2 clamped by b0
  box_ambient,       \* AmbientDimAtCompileTime: Dynamic or the dimension
  box_dim,           \* the _dim passed to AlignedBox(int _dim)
  b0, b1, b2,        \* [m_min, m_max]
  box_ret            \* the most recent query on b0 since b0 last changed:
                     \* [op, p, value, visited]

boxVars == <<box_pc, box_ambient, box_dim, b0, b1, b2, box_ret>>

\* the deflation loop of SelfAdjointEigenSolver::compute (part_000 lines
\* 236-252) and ei_tridiagonal_qr_step, on magnitude classes
VARIABLES
  qr_pc,             \* "none"; "deflate": at line 238; "find": at line 243;
                     \* "step": at the call of line 251; "sort": the loop
                     \* has been left (line 254)
  qr_n,
  qr_vectors,        \* computeEigenvectors
  qr_diag,           \* diag, one magnitude class per entry
  qr_subdiag,        \* m_subdiag, one magnitude class per entry
  qr_Q,              \* m_eivec, one mark per column
  qr_start, qr_end,
  qr_last            \* history of the most recent ei_tridiagonal_qr_step:
                     \* its arguments, its rotations in order, the indices
                     \* it wrote, the entries it did not write as they
                     \* were when it was called

qrVars == <<qr_pc, qr_n, qr_vectors, qr_diag, qr_subdiag, qr_Q, qr_start,
            qr_end, qr_last>>

vars == <<luVars, eigVars, dlVars, boxVars, qrVars>>

(***************************************************************************)
(* Exact rational arithmetic.                                              *)
(***************************************************************************)
AbsI(a) == IF a < 0 THEN -a ELSE a

RECURSIVE Gcd(_, _)
Gcd(a, b) == IF b = 0 THEN a ELSE Gcd(b, a % b)

NonFinite == <<1, 0>>

IsFinite(a) == a[2] # 0

Q(n, d) ==
  IF d = 0 THEN NonFinite
  ELSE LET s == IF d < 0 THEN -1 ELSE 1
           g == Gcd(AbsI(n), AbsI(d))
       IN <<(s * n) \div g, (s * d) \div g>>

QI(i) == <<i, 1>>

QZero == <<0, 1>>

QOne == <<1, 1>>

IsZero(a) == a = QZero

\* common factors are cancelled before multiplying, to keep the integers small
QAdd(a, b) ==
  IF ~IsFinite(a) \/ ~IsFinite(b) THEN NonFinite
  ELSE LET g == Gcd(a[2], b[2])
       IN Q(a[1] * (b[2] \div g) + b[1] * (a[2] \div g), (a[2] \div g) * b[2])

QNeg(a) == IF ~IsFinite(a) THEN NonFinite ELSE <<-a[1], a[2]>>

QSub(a, b) == QAdd(a, QNeg(b))

QMul(a, b) ==
  IF ~IsFinite(a) \/ ~IsFinite(b) THEN NonFinite
  ELSE LET g1 == Gcd(AbsI(a[1]), b[2])
           g2 == Gcd(AbsI(b[1]), a[2])
       IN <<(a[1] \div g1) * (b[1] \div g2), (a[2] \div g2) * (b[2] \div g1)>>

QDiv(a, b) ==
  IF ~IsFinite(a) \/ ~IsFinite(b) \/ b[1] = 0 THEN NonFinite
  ELSE QMul(a, IF b[1] < 0 THEN <<-b[2], -b[1]>> ELSE <<b[2], b[1]>>)

QAbs(a) == IF ~IsFinite(a) THEN NonFinite ELSE <<AbsI(a[1]), a[2]>>

\* a <= b, a < b on finite rationals
QLe(a, b) ==
  LET g == Gcd(a[2], b[2])
  IN a[1] * (b[2] \div g) <= b[1] * (a[2] \div g)

QLt(a, b) ==
  LET g == Gcd(a[2], b[2])
  IN a[1] * (b[2] \div g) < b[1] * (a[2] \div g)

QMax(a, b) == IF QLt(a, b) THEN b ELSE a

QMin(a, b) == IF QLt(b, a) THEN b ELSE a

\* Idx(n) is 0 .. n-1
Idx(n) == 0 .. (n - 1)

\* a norm that is not a rational number
Irrational == <<0, 0>>

\* largest s in lo .. hi with s * s <= a
RECURSIVE ISqrtIn(_, _, _)
ISqrtIn(a, lo, hi) ==
  IF lo = hi THEN lo
  ELSE LET mid == (lo + hi + 1) \div 2
       IN IF mid * mid <= a THEN ISqrtIn(a, mid, hi)
          ELSE ISqrtIn(a, lo, mid - 1)

ISqrt(a) == ISqrtIn(a, 0, IF a < 46340 THEN a ELSE 46340)

\* ei_sqrt on a non-negative rational
QSqrt(a) ==
  IF ~IsFinite(a) THEN a
  ELSE IF a[1] < 0 THEN Irrational
  ELSE LET sn == ISqrt(a[1])
           sd == ISqrt(a[2])
       IN IF sn * sn = a[1] /\ sd * sd = a[2] THEN <<sn, sd>>
          ELSE Irrational

RECURSIVE SumSqFrom(_, _, _)
SumSqFrom(v, n, i) ==
  IF i >= n THEN QZero ELSE QAdd(QMul(v[i], v[i]), SumSqFrom(v, n, i + 1))

squaredNorm(v, n) == SumSqFrom(v, n, 0)

stableNorm(v, n) == QSqrt(squaredNorm(v, n))

(***************************************************************************)
(* Skyline matrix storage (class SkylineMatrix, used through m_lu).        *)
(* A matrix is a record                                                    *)
(*   [n, rowMajor, diag, lower, upper, fault]                              *)
(* diag  : 0..n-1 -> scalar                                                *)
(* lower : 0..n-1 -> sequence of the stored strictly-lower entries of one  *)
(*         outer vector: row-major, row r holds columns r-Len .. r-1;      *)
(*         column-major, column c holds rows c+1 .. c+Len                  *)
(* upper : 0..n-1 -> sequence of the stored strictly-upper entries:        *)
(*         row-major, column c holds rows c-Len .. c-1;                    *)
(*         column-major, row r holds columns r+1 .. r+Len                  *)
(* fault : "none", or "assert" once an accessor's ei_assert has failed    *)
(* An inner iterator is a pair (outer, id), id = m_id - m_start.           *)
(***************************************************************************)
\* InnerLowerIterator / InnerUpperIterator :: size()
LowerSize(m, outer) == Len(m.lower[outer])

UpperSize(m, outer) == Len(m.upper[outer])

\* iterator :: operator bool()
ItValid(size, id) == id >= 0 /\ id < size

\* InnerLowerIterator::value(); reading through an iterator that is not
\* valid is undefined behaviour and yields the arbitrary value g
LowerValue(m, outer, id, g) ==
  IF ItValid(LowerSize(m, outer), id) THEN m.lower[outer][id + 1] ELSE g

UpperValue(m, outer, id, g) ==
  IF ItValid(UpperSize(m, outer), id) THEN m.upper[outer][id + 1] ELSE g

\* InnerLowerIterator::col()
LowerCol(m, outer, id) ==
  IF m.rowMajor THEN outer - LowerSize(m, outer) + id ELSE outer

\* InnerUpperIterator::row()
UpperRow(m, outer, id) ==
  IF m.rowMajor THEN outer - UpperSize(m, outer) + id ELSE outer

\* position <<outer, id>> of the strictly-lower coefficient (row, col)
LowerPos(m, row, col) ==
  IF m.rowMajor THEN <<row, col - (row - LowerSize(m, row))>>
  ELSE <<col, row - col - 1>>

\* position <<outer, id>> of the strictly-upper coefficient (row, col)
UpperPos(m, row, col) ==
  IF m.rowMajor THEN <<col, row - (col - UpperSize(m, col))>>
  ELSE <<row, col - row - 1>>

\* SkylineMatrix::coeffExistLower(row, col)
coeffExistLower(m, row, col) ==
  LET p == LowerPos(m, row, col) IN ItValid(LowerSize(m, p[1]), p[2])

coeffExistUpper(m, row, col) ==
  LET p == UpperPos(m, row, col) IN ItValid(UpperSize(m, p[1]), p[2])

\* SkylineMatrix::coeffLower(row, col): a structural zero reads as 0
coeffLower(m, row, col) ==
  LET p == LowerPos(m, row, col)
  IN IF coeffExistLower(m, row, col) THEN m.lower[p[1]][p[2] + 1] ELSE QZero

coeffUpper(m, row, col) ==
  LET p == UpperPos(m, row, col)
  IN IF coeffExistUpper(m, row, col) THEN m.upper[p[1]][p[2] + 1] ELSE QZero

\* SkylineMatrix::coeff(row, col)
coeff(m, row, col) ==
  IF row = col THEN m.diag[row]
  ELSE IF row > col THEN coeffLower(m, row, col)
  ELSE coeffUpper(m, row, col)

\* the matrix as a dense table
Dense(m) == [i \in Idx(m.n) |-> [j \in Idx(m.n) |-> coeff(m, i, j)]]

\* coeffRefLower(row, col) = v; the coefficient must exist in the storage
\* (ei_assert in the accessor), otherwise the factorization aborts
SetLower(m, row, col, v) ==
  LET p == LowerPos(m, row, col)
  IN IF coeffExistLower(m, row, col)
     THEN [m EXCEPT !.lower[p[1]][p[2] + 1] = v]
     ELSE [m EXCEPT !.fault = "assert"]

SetUpper(m, row, col, v) ==
  LET p == UpperPos(m, row, col)
  IN IF coeffExistUpper(m, row, col)
     THEN [m EXCEPT !.upper[p[1]][p[2] + 1] = v]
     ELSE [m EXCEPT !.fault = "assert"]

(***************************************************************************)
(* SkylineInplaceLU::compute() -- column-major factorization.              *)
(***************************************************************************)
\* ScaleColumn refusing a zero pivot
ScaleColumnChecked(m, row) ==
  LET pivot == m.diag[row]
  IN IF IsZero(pivot) THEN [m EXCEPT !.fault = "assert"]
     ELSE [m EXCEPT !.lower[row] =
             [p \in 1 .. Len(m.lower[row]) |-> QDiv(m.lower[row][p], pivot)]]

\* lines 143-145: scale the lower entries of column `row` by the pivot
ScaleColumn(m, row) ==
  LET pivot == m.diag[row]
  IN [m EXCEPT !.lower[row] =
        [p \in 1 .. Len(m.lower[row]) |-> QDiv(m.lower[row][p], pivot)]]

\* lines 157-162: uIt starts at id 0 of row rrow, uItPivot at id rrow-row
\* of the pivot row; runs while both iterators are valid
RECURSIVE UpperContiguous(_, _, _, _, _)
UpperContiguous(m, row, rrow, coef, t) ==
  IF ItValid(UpperSize(m, rrow), t) /\ ItValid(UpperSize(m, row), rrow - row + t)
  THEN UpperContiguous(
         [m EXCEPT !.upper[rrow][t + 1] =
            QSub(@, QMul(m.upper[row][rrow - row + t + 1], coef))],
         row, rrow, coef, t + 1)
  ELSE m

\* lines 148-164: lIt advances once per rrow, valid or not
RECURSIVE UpperUpdate(_, _, _, _)
UpperUpdate(m, row, rrow, g) ==
  IF rrow >= m.n THEN m
  ELSE LET coef == LowerValue(m, row, rrow - row - 1, g)
       IN UpperUpdate(UpperContiguous(m, row, rrow, coef, 0), row, rrow + 1, g)

\* lines 173-176
RECURSIVE LowerNonContiguous(_, _, _, _, _, _)
LowerNonContiguous(m, row, rrow, coef, i, g) ==
  IF m.fault # "none" \/ i >= rrow - row - 1 THEN m
  ELSE LowerNonContiguous(
         SetLower(m, rrow, row + i + 1,
                  QSub(coeffLower(m, rrow, row + i + 1),
                       QMul(UpperValue(m, row, i, g), coef))),
         row, rrow, coef, i + 1, g)

\* lines 167-178
RECURSIVE LowerUpdate(_, _, _, _)
LowerUpdate(m, row, rrow, g) ==
  IF m.fault # "none" \/ rrow >= m.n THEN m
  ELSE LET coef == LowerValue(m, row, rrow - row - 1, g)
       IN LowerUpdate(LowerNonContiguous(m, row, rrow, coef, 0, g),
                      row, rrow + 1, g)

\* lines 180-190
RECURSIVE DiagUpdate(_, _, _, _)
DiagUpdate(m, row, rrow, g) ==
  IF m.fault # "none" \/ rrow >= m.n THEN m
  ELSE LET coef == LowerValue(m, row, rrow - row - 1, g)
           piv == UpperValue(m, row, rrow - row - 1, g)
       IN DiagUpdate([m EXCEPT !.diag[rrow] = QSub(@, QMul(piv, coef))],
                     row, rrow + 1, g)

\* lines 138-191: one pivot row
ComputeRow(m, row, g) ==
  DiagUpdate(
    LowerUpdate(
      UpperUpdate(ScaleColumn(m, row), row, row + 1, g),
      row, row + 1, g),
    row, row + 1, g)

RECURSIVE ComputeFrom(_, _, _)
ComputeFrom(m, row, g) ==
  IF m.fault # "none" \/ row >= m.n THEN m
  ELSE ComputeFrom(ComputeRow(m, row, g), row + 1, g)

\* SkylineInplaceLU::compute()
compute(m, g) == ComputeFrom(m, 0, g)

\* lines 138-190: the storage positions compute() addresses without a
\* validity test of its own, for the profile of m: the three lower
\* iterators of column `row` read once per rrow (lines 152, 170, 185), the
\* pivot-row upper iterator read at id 0, 1, ... by the non-contiguous
\* update and at id rrow-row-1 by the diagonal update (lines 174, 188) and
\* the coefficient coeffRefLower(rrow, row+i+1) of line 174.  stored: the
\* profile holds the position.  (The contiguous update of lines 158-163
\* tests both iterators before each access.)
ComputeAccesses(m) ==
  UNION {
    UNION {
      {[via |-> "lIt", outer |-> row, id |-> rrow - row - 1,
        stored |-> ItValid(LowerSize(m, row), rrow - row - 1)],
       [via |-> "uItPivot", outer |-> row, id |-> rrow - row - 1,
        stored |-> ItValid(UpperSize(m, row), rrow - row - 1)]}
      \cup
      UNION {
        {[via |-> "uItPivot", outer |-> row, id |-> i,
          stored |-> ItValid(UpperSize(m, row), i)],
         [via |-> "coeffRefLower", outer |-> row + i + 1,
          id |-> rrow - (row + i + 1) - 1,
          stored |-> coeffExistLower(m, rrow, row + i + 1)]}
        : i \in 0 .. (rrow - row - 2) }
      : rrow \in (row + 1) .. (m.n - 1) }
    : row \in Idx(m.n) }

(***************************************************************************)
(* SkylineInplaceLU::computeRowMajor() -- row-major factorization.         *)
(***************************************************************************)
\* lines 233-238, 267-273, 297-302: acc - sum_k lIt.value() * uIt.value(),
\* lIt on lower vector lo from id lid, uIt on upper vector uo from id uid
RECURSIVE DotLoop(_, _, _, _, _, _, _, _, _)
DotLoop(m, lo, lid, uo, uid, k, stop, acc, g) ==
  IF k >= stop THEN acc
  ELSE DotLoop(m, lo, lid, uo, uid, k + 1, stop,
               QSub(acc, QMul(LowerValue(m, lo, lid + k, g),
                              UpperValue(m, uo, uid + k, g))),
               g)

\* lines 214-230: the two iterators are aligned on a common first index;
\* result <<lid, uid>> are the ids after the skip
AlignIds(offset) == IF offset > 0 THEN <<0, offset>> ELSE <<-offset, 0>>

\* lines 206-243: lower entries of `row`, column by column
RECURSIVE RowLowerLoop(_, _, _, _)
RowLowerLoop(m, row, col, g) ==
  IF m.fault # "none" \/ col >= row THEN m
  ELSE IF ~coeffExistLower(m, row, col) THEN RowLowerLoop(m, row, col + 1, g)
  ELSE LET diag == m.diag[col]
           lcol == LowerCol(m, row, 0)
           urow == UpperRow(m, col, 0)
           offset == lcol - urow
           stop == IF offset > 0 THEN col - lcol ELSE col - urow
           ids == AlignIds(offset)
           newCoeff == DotLoop(m, row, ids[1], col, ids[2], 0, stop,
                               coeffLower(m, row, col), g)
       IN RowLowerLoop(SetLower(m, row, col, QDiv(newCoeff, diag)),
                       row, col + 1, g)

\* lines 246-276: upper entries of column `col` = row
RECURSIVE RowUpperLoop(_, _, _, _)
RowUpperLoop(m, col, rrow, g) ==
  IF m.fault # "none" \/ rrow >= col THEN m
  ELSE LET lcol == LowerCol(m, rrow, 0)
           urow == UpperRow(m, col, 0)
           offset == lcol - urow
           stop == IF offset > 0 THEN rrow - lcol ELSE rrow - urow
           ids == AlignIds(offset)
           newCoeff == DotLoop(m, rrow, ids[1], col, ids[2], 0, stop,
                               coeffUpper(m, rrow, col), g)
       IN RowUpperLoop(SetUpper(m, rrow, col, newCoeff), col, rrow + 1, g)

\* lines 280-304: diagonal entry of `row`
RowDiag(m, row, g) ==
  IF m.fault # "none" THEN m
  ELSE LET offset == LowerCol(m, row, 0) - UpperRow(m, row, 0)
           stop == IF offset > 0 THEN LowerSize(m, row) ELSE UpperSize(m, row)
           ids == AlignIds(offset)
       IN [m EXCEPT !.diag[row] =
             DotLoop(m, row, ids[1], row, ids[2], 0, stop, m.diag[row], g)]

\* lines 202-305: one row
ComputeRowMajorRow(m, row, g) ==
  RowDiag(
    RowUpperLoop(
      RowLowerLoop(m, row, LowerCol(m, row, 0), g),
      row, UpperRow(m, row, 0), g),
    row, g)

RECURSIVE ComputeRowMajorFrom(_, _, _)
ComputeRowMajorFrom(m, row, g) ==
  IF m.fault # "none" \/ row >= m.n THEN m
  ELSE ComputeRowMajorFrom(ComputeRowMajorRow(m, row, g), row + 1, g)

\* SkylineInplaceLU::computeRowMajor()
computeRowMajor(m, g) == ComputeRowMajorFrom(m, 0, g)

(***************************************************************************)
(* SkylineInplaceLU::solve(b, x, transposed)                               *)
(***************************************************************************)
\* lines 329-333: while (lIt.col() < row) newVal -= x[col++] * lIt.value()
RECURSIVE ForwardInner(_, _, _, _, _, _, _)
ForwardInner(m, x, row, id, col, newVal, g) ==
  IF LowerCol(m, row, id) < row
  THEN ForwardInner(m, x, row, id + 1, col + 1,
                    QSub(newVal, QMul(x[col], LowerValue(m, row, id, g))), g)
  ELSE newVal

\* lines 323-336
RECURSIVE ForwardLoop(_, _, _, _, _)
ForwardLoop(m, b, x, row, g) ==
  IF row >= m.n THEN x
  ELSE LET x1 == [x EXCEPT ![row] = b[row]]
           newVal == ForwardInner(m, x1, row, 0, LowerCol(m, row, 0),
                                  x1[row], g)
       IN ForwardLoop(m, b, [x1 EXCEPT ![row] = newVal], row + 1, g)

\* lines 348-352: uIt walks the upper vector of `col` backwards
RECURSIVE BackInner(_, _, _, _, _, _)
BackInner(m, x, col, id, x_col, g) ==
  IF ItValid(UpperSize(m, col), id)
  THEN BackInner(m,
                 [x EXCEPT ![UpperRow(m, col, id)] =
                    QSub(@, QMul(x_col, UpperValue(m, col, id, g)))],
                 col, id - 1, x_col, g)
  ELSE x

\* lines 339-355
RECURSIVE BackLoop(_, _, _, _)
BackLoop(m, x, col, g) ==
  IF col <= 0 THEN x
  ELSE LET x1 == [x EXCEPT ![col] = QDiv(@, m.diag[col])]
       IN BackLoop(m, BackInner(m, x1, col, UpperSize(m, col) - 1, x1[col], g),
                   col - 1, g)

\* line 356
LastDivide(m, x) == [x EXCEPT ![0] = QDiv(@, m.diag[0])]

\* SkylineInplaceLU::solve: the vector written to *x. The parameter
\* `transposed` is not read anywhere in the body. Every iterator read of
\* the two loops is guarded by the iterator's position, so the value g of
\* an invalid read is never used.
solve(m, b, x, transposed) ==
  LastDivide(m, BackLoop(m, ForwardLoop(m, b, x, 0, QZero), m.n - 1, QZero))

\* solve reporting a zero or non-finite pivot
solveReturnsPivotCheck(m, b, x, transposed) ==
  \A i \in Idx(m.n) : IsFinite(m.diag[i]) /\ ~IsZero(m.diag[i])

\* line 358: return true
solveReturns(m, b, x, transposed) == TRUE

(***************************************************************************)
(* State of a SkylineInplaceLU object and of its caller.                   *)
(***************************************************************************)

\* values an invalid iterator read may yield
Garbage == {QZero, QOne}

TransposedModes == {"SvNoTranspose", "SvTranspose", "SvAdjoint"}

\* RealScalar(0.1) * dummy_precision<float>()
DefaultPrecision == Q(1, 1000000)

PrecisionValues == {DefaultPrecision, Q(1, 100)}

FlagValues == {0, 1}

Seeds == {0, 1, 2, 3}

RhsIds == {0, 1}

\* test matrices: entry (i, j) of the matrix with the given seed
Entry(seed, i, j) ==
  IF i = j
  THEN (IF seed = 0 THEN QI((i + 2) % 3)
        ELSE IF seed = 1 THEN QI(i % 3)
        ELSE QI(4 + ((seed + i) % 3)))
  ELSE QI((((seed + 1) * (i + 2 * j + 1) + i * j) % 5) - 2)

\* profile lengths a vector of the given orientation can have
Profiles(n, rowMajor) ==
  {p \in [Idx(n) -> 0 .. (n - 1)] :
     \A i \in Idx(n) : p[i] <= (IF rowMajor THEN i ELSE n - 1 - i)}

SkylineMatrixOf(n, rowMajor, lp, up, seed) ==
  [n |-> n, rowMajor |-> rowMajor, fault |-> "none",
   diag |-> [i \in Idx(n) |-> Entry(seed, i, i)],
   lower |-> [o \in Idx(n) |->
                [k \in 1 .. lp[o] |->
                   IF rowMajor THEN Entry(seed, o, o - lp[o] + k - 1)
                   ELSE Entry(seed, o + k, o)]],
   upper |-> [o \in Idx(n) |->
                [k \in 1 .. up[o] |->
                   IF rowMajor THEN Entry(seed, o - up[o] + k - 1, o)
                   ELSE Entry(seed, o, o + k)]]]

RhsVector(n, k) == [i \in Idx(n) |-> QI((i + 1) * (k + 1) - 2 * k * i)]

ZeroVector(n) == [i \in Idx(n) |-> QZero]

InitLUVars ==
  \E n \in 1 .. MaxN, rowMajor \in BOOLEAN, seed \in Seeds :
    \E lp \in Profiles(n, rowMajor), up \in Profiles(n, rowMajor) :
      /\ m_lu = SkylineMatrixOf(n, rowMajor, lp, up, seed)
      /\ lu_A = Dense(m_lu)
      /\ lu_pc = "idle"
      /\ m_precision = QZero
      /\ m_flags = 0
      /\ m_status = 0
      /\ m_succeeded = FALSE
      /\ lu_b = ZeroVector(n)
      /\ lu_x = ZeroVector(n)
      /\ lu_transposed = "SvNoTranspose"
      /\ lu_ret = "none"
      /\ lu_stored = [precision |-> QZero, flags |-> 0]

\* the matrices whose lower and upper profiles agree
InitLUSymmetricProfile ==
  /\ InitLUVars
  /\ \A o \in Idx(m_lu.n) : Len(m_lu.lower[o]) = Len(m_lu.upper[o])

\* no skyline matrix and no LU object exist
NoLU ==
  /\ m_lu = SkylineMatrixOf(0, TRUE, ZeroVector(0), ZeroVector(0), 0)
  /\ lu_A = Dense(m_lu)
  /\ lu_pc = "none"
  /\ m_precision = QZero
  /\ m_flags = 0
  /\ m_status = 0
  /\ m_succeeded = FALSE
  /\ lu_b = ZeroVector(0)
  /\ lu_x = ZeroVector(0)
  /\ lu_transposed = "SvNoTranspose"
  /\ lu_ret = "none"
  /\ lu_stored = [precision |-> QZero, flags |-> 0]

\* the constructor factorizing a private copy: the caller's matrix is
\* left as it was
FactorizeCopy(matrix, g) == matrix

\* lines 48 and 50: m_lu(matrix) binds a reference, no storage is allocated;
\* the factorization writes through it into the caller's matrix
FactorizeInPlace(matrix, g) ==
  IF matrix.rowMajor THEN computeRowMajor(matrix, g) ELSE compute(matrix, g)

\* SkylineInplaceLU(MatrixType& matrix, int flags): m_succeeded has no
\* initializer and is assigned nowhere, so its value is indeterminate
Construct(flags) ==
  /\ lu_pc = "idle"
  /\ \E g \in Garbage, indeterminate \in BOOLEAN :
       LET f == FactorizeInPlace(m_lu, g)
       IN /\ m_lu' = f
          /\ lu_pc' = IF f.fault = "none" THEN "ready" ELSE "aborted"
          /\ m_succeeded' = indeterminate
  /\ m_flags' = flags
  /\ m_status' = 0
  /\ m_precision' = DefaultPrecision
  /\ lu_stored' = [precision |-> DefaultPrecision, flags |-> flags]
  /\ UNCHANGED <<lu_A, lu_b, lu_x, lu_transposed, lu_ret>>
  /\ UNCHANGED <<eigVars, dlVars, boxVars, qrVars>>

\* bool solve(b, x, transposed)
Solve(k, transposed) ==
  /\ lu_pc = "ready"
  /\ lu_x' = solve(m_lu, RhsVector(m_lu.n, k), lu_x, transposed)
  /\ lu_b' = RhsVector(m_lu.n, k)
  /\ lu_transposed' = transposed
  /\ lu_ret' = IF solveReturns(m_lu, RhsVector(m_lu.n, k), lu_x, transposed)
               THEN "true" ELSE "false"
  /\ UNCHANGED <<lu_pc, m_lu, lu_A, m_precision, m_flags, m_status, m_succeeded,
                 lu_stored>>
  /\ UNCHANGED <<eigVars, dlVars, boxVars, qrVars>>

SetPrecision(v) ==
  /\ lu_pc = "ready"
  /\ m_precision' = v
  /\ lu_stored' = [lu_stored EXCEPT !.precision = v]
  /\ UNCHANGED <<lu_pc, m_lu, lu_A, m_flags, m_status, m_succeeded,
                 lu_b, lu_x, lu_transposed, lu_ret>>
  /\ UNCHANGED <<eigVars, dlVars, boxVars, qrVars>>

SetFlags(f) ==
  /\ lu_pc = "ready"
  /\ m_flags' = f
  /\ lu_stored' = [lu_stored EXCEPT !.flags = f]
  /\ UNCHANGED <<lu_pc, m_lu, lu_A, m_precision, m_status, m_succeeded,
                 lu_b, lu_x, lu_transposed, lu_ret>>
  /\ UNCHANGED <<eigVars, dlVars, boxVars, qrVars>>

SetOrderingMethod(mth) ==
  /\ lu_pc = "ready"
  /\ m_flags' = mth
  /\ lu_stored' = [lu_stored EXCEPT !.flags = mth]
  /\ UNCHANGED <<lu_pc, m_lu, lu_A, m_precision, m_status, m_succeeded,
                 lu_b, lu_x, lu_transposed, lu_ret>>
  /\ UNCHANGED <<eigVars, dlVars, boxVars, qrVars>>

\* precision() answering the constructor's default
precisionDefault == DefaultPrecision

\* accessors
precision == m_precision

flags == m_flags

orderingMethod == m_flags

succeeded == m_succeeded

\* constructor with the default flags, and solve
NextLU ==
  \/ Construct(0)
  \/ \E k \in RhsIds, t \in TransposedModes : Solve(k, t)

\* every public operation of the class
NextLUObject ==
  \/ \E f \in FlagValues : Construct(f)
  \/ \E k \in RhsIds, t \in TransposedModes : Solve(k, t)
  \/ \E v \in PrecisionValues : SetPrecision(v)
  \/ \E f \in FlagValues : SetFlags(f)
  \/ \E mth \in FlagValues : SetOrderingMethod(mth)

(***************************************************************************)
(* Properties of the skyline LU.                                           *)
(***************************************************************************)
\* textbook elimination without pivoting on a dense table: TRUE iff every
\* pivot met is nonzero
RECURSIVE PivotsNonzeroFrom(_, _, _)
PivotsNonzeroFrom(D, n, k) ==
  IF k >= n THEN TRUE
  ELSE IF IsZero(D[k][k]) THEN FALSE
  ELSE PivotsNonzeroFrom(
         [i \in Idx(n) |-> [j \in Idx(n) |->
            IF i > k
            THEN QSub(D[i][j], QMul(QDiv(D[i][k], D[k][k]), D[k][j]))
            ELSE D[i][j]]],
         n, k + 1)

PivotsNonzero(D, n) == PivotsNonzeroFrom(D, n, 0)

RECURSIVE SumTo(_, _)
SumTo(f, k) == IF k < 0 THEN QZero ELSE QAdd(f[k], SumTo(f, k - 1))

\* the factors read back from the storage
FactorL(m) == [i \in Idx(m.n) |-> [j \in Idx(m.n) |->
                IF i > j THEN coeff(m, i, j) ELSE IF i = j THEN QOne ELSE QZero]]

FactorU(m) == [i \in Idx(m.n) |-> [j \in Idx(m.n) |->
                IF i <= j THEN coeff(m, i, j) ELSE QZero]]

MatMul(X, Y, n) == [i \in Idx(n) |-> [j \in Idx(n) |->
                     SumTo([k \in Idx(n) |-> QMul(X[i][k], Y[k][j])], n - 1)]]

MatVec(X, v, n) == [i \in Idx(n) |->
                     SumTo([k \in Idx(n) |-> QMul(X[i][k], v[k])], n - 1)]

Transpose(X, n) == [i \in Idx(n) |-> [j \in Idx(n) |-> X[j][i]]]

FullProfile(m) ==
  \A o \in Idx(m.n) :
    /\ LowerSize(m, o) = (IF m.rowMajor THEN o ELSE m.n - 1 - o)
    /\ UpperSize(m, o) = (IF m.rowMajor THEN o ELSE m.n - 1 - o)

\* C1: whenever the constructor has run on a matrix with nonzero pivots,
\* it has returned and the storage holds L and U with L*U = A
\* (both storage orders).
C1_FactorsReproduceA ==
  (lu_pc \in {"ready", "aborted"} /\ PivotsNonzero(lu_A, m_lu.n))
    => (lu_pc = "ready" /\ MatMul(FactorL(m_lu), FactorU(m_lu), m_lu.n) = lu_A)

\* the same statement for row-major storage only
RowMajorFactorsReproduceA ==
  (lu_pc # "idle" /\ m_lu.rowMajor /\ PivotsNonzero(lu_A, m_lu.n))
    => (lu_pc = "ready" /\ MatMul(FactorL(m_lu), FactorU(m_lu), m_lu.n) = lu_A)

\* the same statement for column-major storage with a full profile
ColMajorFullFactorsReproduceA ==
  (lu_pc # "idle" /\ ~m_lu.rowMajor /\ FullProfile(m_lu)
     /\ PivotsNonzero(lu_A, m_lu.n))
    => (lu_pc = "ready" /\ MatMul(FactorL(m_lu), FactorU(m_lu), m_lu.n) = lu_A)

\* C2: once the storage holds the factors of a matrix A with nonzero
\* pivots, every solve leaves in x the solution of A*x = b.
C2_SolveSolves ==
  (lu_pc = "ready" /\ lu_ret = "true" /\ PivotsNonzero(lu_A, m_lu.n)
     /\ MatMul(FactorL(m_lu), FactorU(m_lu), m_lu.n) = lu_A)
    => MatVec(lu_A, lu_x, m_lu.n) = lu_b

RowMajorSolveSolves ==
  (lu_pc = "ready" /\ lu_ret = "true" /\ m_lu.rowMajor
     /\ PivotsNonzero(lu_A, m_lu.n))
    => MatVec(lu_A, lu_x, m_lu.n) = lu_b

\* C9: after construction on a matrix with nonzero pivots succeeded()
\* returns true, whatever was called since.
C9_SucceededIsTrue ==
  (lu_pc = "ready" /\ PivotsNonzero(lu_A, m_lu.n)) => succeeded = TRUE

\* C10: a solve called with SvTranspose or SvAdjoint leaves in x the
\* solution of the transposed system.
C10_TransposedSolve ==
  (lu_pc = "ready" /\ lu_ret = "true" /\ m_lu.rowMajor
     /\ lu_transposed \in {"SvTranspose", "SvAdjoint"}
     /\ PivotsNonzero(lu_A, m_lu.n))
    => MatVec(Transpose(lu_A, m_lu.n), lu_x, m_lu.n) = lu_b

\* C11: every solve returns true, and leaves the object usable, also on
\* factors holding a zero pivot and for every value of `transposed`.
C11_SolveReturnsTrue ==
  /\ lu_ret \in {"none", "true"}
  /\ lu_ret = "true" => lu_pc = "ready"

\* a solve on factors with a zero pivot, asked for the adjoint system, has
\* returned true and left non-finite values in x
C11_Witness ==
  /\ lu_ret = "true"
  /\ lu_transposed = "SvAdjoint"
  /\ \E i \in Idx(m_lu.n) : IsZero(m_lu.diag[i])
  /\ \E i \in Idx(m_lu.n) : ~IsFinite(lu_x[i])

\* the caller's matrix as it was before the constructor ran, rebuilt from
\* its dense copy and the profile of the storage
OriginalMatrix ==
  [m_lu EXCEPT
     !.fault = "none",
     !.diag = [i \in Idx(m_lu.n) |-> lu_A[i][i]],
     !.lower = [o \in Idx(m_lu.n) |->
                  [k \in 1 .. Len(m_lu.lower[o]) |->
                     IF m_lu.rowMajor
                     THEN lu_A[o][o - Len(m_lu.lower[o]) + k - 1]
                     ELSE lu_A[o + k][o]]],
     !.upper = [o \in Idx(m_lu.n) |->
                  [k \in 1 .. Len(m_lu.upper[o]) |->
                     IF m_lu.rowMajor
                     THEN lu_A[o - Len(m_lu.upper[o]) + k - 1][o]
                     ELSE lu_A[o][o + k]]]]

\* what compute() / computeRowMajor() write when run on the original matrix
Factorized(g) ==
  IF m_lu.rowMajor THEN computeRowMajor(OriginalMatrix, g)
  ELSE compute(OriginalMatrix, g)

\* C12: once the constructor has returned, the caller's own storage holds
\* what the factorization wrote (for row-major storage and nonzero pivots:
\* factors L, U with L*U = A), and the vector every later solve writes is
\* computed from that storage.
C12_FactorizedInPlace ==
  lu_pc = "ready" =>
    /\ \E g \in Garbage : m_lu = Factorized(g)
    /\ (m_lu.rowMajor /\ PivotsNonzero(lu_A, m_lu.n)) =>
         MatMul(FactorL(m_lu), FactorU(m_lu), m_lu.n) = lu_A
    /\ lu_ret = "true" => lu_x = solve(m_lu, lu_b, lu_b, lu_transposed)

\* the constructor has overwritten original entries of a 3 x 3 matrix and
\* a solve has used the factors
C12_Witness ==
  /\ lu_pc = "ready"
  /\ m_lu.n = 3
  /\ PivotsNonzero(lu_A, m_lu.n)
  /\ Dense(m_lu) # lu_A
  /\ \E i \in Idx(m_lu.n) : m_lu.diag[i] # lu_A[i][i]
  /\ lu_ret = "true"
  /\ MatVec(lu_A, lu_x, m_lu.n) = lu_b

\* the only assertion the factorization can fail: the column-major update
\* of line 174 addresses a lower coefficient (rrow, c), 0 < c < rrow, that
\* the profile of column c does not store
ProfileFault(m) ==
  /\ ~m.rowMajor
  /\ \E c \in 1 .. (m.n - 2) : LowerSize(m, c) < m.n - 1 - c

RowMajorZeroPivotReached ==
  ~( /\ lu_pc = "ready"
     /\ m_lu.rowMajor
     /\ m_lu.n = 3
     /\ IsZero(lu_A[0][0])
     /\ ~IsFinite(m_lu.diag[2]) )

RECURSIVE MinCoeffFrom(_, _, _, _, _)
MinCoeffFrom(vals, n, from, i, best) ==
  IF i >= n THEN best - from
  ELSE MinCoeffFrom(vals, n, from, i + 1,
                    IF QLt(vals[i], vals[best]) THEN i ELSE best)

minCoeff(vals, n, from) == MinCoeffFrom(vals, n, from, from + 1, from)

\* std::swap(v[a], v[b]) / col(a).swap(col(b))
SwapAt(v, a, b) == [v EXCEPT ![a] = v[b], ![b] = v[a]]

\* SortStep exchanging with position k instead of k + i
SortStepAbsoluteIndex(s, n, i) ==
  LET k == minCoeff(s.vals, n, i)
  IN IF k > 0
     THEN [vals |-> SwapAt(s.vals, i, k), vecs |-> SwapAt(s.vecs, i, k)]
     ELSE s

\* SortStep exchanging the eigenvalues only
SortStepValuesOnly(s, n, i) ==
  LET k == minCoeff(s.vals, n, i)
  IN IF k > 0
     THEN [vals |-> SwapAt(s.vals, i, k + i), vecs |-> s.vecs]
     ELSE s

\* lines 259-265: one iteration of the sort loop on s = [vals, vecs]
SortStep(s, n, i) ==
  LET k == minCoeff(s.vals, n, i)
  IN IF k > 0
     THEN [vals |-> SwapAt(s.vals, i, k + i), vecs |-> SwapAt(s.vecs, i, k + i)]
     ELSE s

\* lines 257-266
RECURSIVE SortFrom(_, _, _)
SortFrom(s, n, i) ==
  IF i >= n - 1 THEN s ELSE SortFrom(SortStep(s, n, i), n, i + 1)

SortEigen(s, n) == SortFrom(s, n, 0)

\* values the QR phase can leave on the diagonal
EigenValueChoices == {QI(-1), QZero, QI(2)}

\* columns the QR phase can leave in m_eivec: kind 0, the columns of a
\* cyclic permutation matrix (pairwise distinct); kind 1, n equal columns
EigenVectorKinds == {0, 1}

EigenVectorChoice(n, kind) ==
  IF kind = 0
  THEN [j \in Idx(n) |-> [i \in Idx(n) |-> IF i = (j + 1) % n THEN QOne ELSE QZero]]
  ELSE [j \in Idx(n) |-> [i \in Idx(n) |-> QOne]]

EigenVectorChoices(n) == {EigenVectorChoice(n, kind) : kind \in EigenVectorKinds}

ZeroVec(n) == [i \in Idx(n) |-> QZero]

FilledMatrix(n, v) == [j \in Idx(n) |-> [i \in Idx(n) |-> v]]

\* lines 225-252: m_eivec = matrix, decomposeInPlace, the QR iteration.
\* The model does not compute them: what they can leave for a square
\* matrix of size n > 1 is any diagonal over EigenValueChoices with any of
\* the EigenVectorChoices.  A call that does not reach them has no outcome.
QrOutcomes(matrix) ==
  IF matrix.rows = matrix.cols /\ matrix.cols > 1
  THEN [vals : [Idx(matrix.cols) -> EigenValueChoices],
        vecs : EigenVectorChoices(matrix.cols)]
  ELSE {[vals |-> ZeroVec(0), vecs |-> FilledMatrix(0, QZero)]}

\* a Scalar of an input matrix: a complex number with rational parts
Complex(re, im) == [re |-> re, im |-> im]

ei_real(z) == z.re

ei_conj(z) == Complex(z.re, QNeg(z.im))

\* z / q for a real q
CDivReal(z, q) == Complex(QDiv(z.re, q), QDiv(z.im, q))

SymEntry(seed, i, j) == QI((((seed + 1) * (i + j + 1) + i * j) % 5) - 2)

DenseMatrix(rows, cols, seed) ==
  [rows |-> rows, cols |-> cols,
   e |-> [i \in Idx(rows) |-> [j \in Idx(cols) |->
            Complex(SymEntry(seed, i, j), QZero)]]]

\* the 1 x 1 matrix [re + im*i]
Matrix1(re, im) ==
  [rows |-> 1, cols |-> 1,
   e |-> [i \in Idx(1) |-> [j \in Idx(1) |-> Complex(re, im)]]]

\* the n x n matrix d * identity
ScaledIdentity(n, d) ==
  [rows |-> n, cols |-> n,
   e |-> [i \in Idx(n) |-> [j \in Idx(n) |->
            Complex(IF i = j THEN d ELSE QZero, QZero)]]]

NoMatrix == DenseMatrix(0, 0, 0)

\* input matrices of compute: symmetric ones of size 1 .. MaxN (three of
\* size 1, one of them with an imaginary part) and two that are not square
InputMatrices ==
  {DenseMatrix(n, n, 0) : n \in 1 .. MaxN}
  \cup {DenseMatrix(1, 1, 1), Matrix1(QI(2), QI(3)),
        DenseMatrix(1, 2, 0), DenseMatrix(2, 1, 0)}

\* arguments <<matA, matB>> of the generalized compute: 1 x 1 problems with
\* B = [1], [4], [0]; A of size 2 with B = I and B = 4 I; and pairs that
\* fail the precondition (A not square, B not square, B of another size)
GeneralizedInputs ==
  { <<A, Matrix1(b, QZero)>> :
      A \in {DenseMatrix(1, 1, 0), Matrix1(QI(2), QI(3))},
      b \in {QOne, QI(4), QZero} }
  \cup { <<DenseMatrix(2, 2, 0), ScaledIdentity(2, b)>> : b \in {QOne, QI(4)} }
  \cup { <<DenseMatrix(1, 2, 0), Matrix1(QOne, QZero)>>,
         <<DenseMatrix(1, 1, 0), DenseMatrix(1, 2, 0)>>,
         <<DenseMatrix(2, 2, 0), Matrix1(QOne, QZero)>> }

\* a rows x cols matrix (sequence of columns) filled with v
FilledRect(rows, cols, v) == [j \in Idx(cols) |-> [i \in Idx(rows) |-> v]]

MatrixCols(m) == Cardinality(DOMAIN m)

MatrixRows(m) == IF MatrixCols(m) = 0 THEN 0 ELSE Cardinality(DOMAIN m[0])

\* the members of the solver as one record
Solver(eivec, eivalues, subdiag, eigenvectorsOk) ==
  [eivec |-> eivec, eivalues |-> eivalues, subdiag |-> subdiag,
   eigenvectorsOk |-> eigenvectorsOk]

\* the solver object of the current state
ThisSolver == Solver(m_eivec, m_eivalues, m_subdiag, m_eigenvectorsOk)

NoSolver == Solver(FilledMatrix(0, QZero), ZeroVec(0), ZeroVec(0), FALSE)

NoCall ==
  [kind |-> "none", matA |-> NoMatrix, matB |-> NoMatrix, prior |-> "none",
   written |-> {}, steps |-> {}]

\* no solver object exists
NoEig ==
  /\ eig_pc = "none"
  /\ m_eivec = NoSolver.eivec
  /\ m_eivalues = NoSolver.eivalues
  /\ m_subdiag = NoSolver.subdiag
  /\ m_eigenvectorsOk = NoSolver.eigenvectorsOk
  /\ eig_requested = "none"
  /\ eig_qr = [vals |-> ZeroVec(0), vecs |-> FilledMatrix(0, QZero)]
  /\ eig_ret = "none"
  /\ eig_call = NoCall

InitEigVars == NoEig

\* resize(n): storage of another size is reallocated and holds the
\* unspecified value u; storage of that size already is left alone
ResizeVector(v, n, u) ==
  IF Cardinality(DOMAIN v) = n THEN v ELSE [i \in Idx(n) |-> u]

ResizeMatrix(m, rows, cols, u) ==
  IF MatrixRows(m) = rows /\ MatrixCols(m) = cols THEN m
  ELSE FilledRect(rows, cols, u)

\* setOnes() leaving the coefficients as they are
KeepCoefficients(m) == m

\* line 221: m_eivec.setOnes()
setOnes(m) == [j \in DOMAIN m |-> [i \in DOMAIN m[j] |-> QOne]]

\* the imaginary part of the entry taken for the eigenvalue
SoleEigenvalueImaginary(matrix) == matrix.e[0][0].im

\* line 220: ei_real(matrix.coeff(0,0))
SoleEigenvalue(matrix) == ei_real(matrix.e[0][0])

\* what one call leaves: the solver, the position, the pair the sort
\* received, the phases that ran, and whether line 211 was reached
CallResult(solver, pc, qr, steps, entered) ==
  [solver |-> solver, pc |-> pc, qr |-> qr, steps |-> steps,
   entered |-> entered]

NoQr == [vals |-> ZeroVec(0), vecs |-> FilledMatrix(0, QZero)]

\* compute(matrix, computeEigenvectors), lines 208-268, on the solver
\* `solver`; qr is what lines 225-252 leave, u the value reallocated
\* storage holds
computeSelfAdjoint(solver, matrix, computeEigenvectors, qr, u) ==
  LET flagged == [solver EXCEPT !.eigenvectorsOk = computeEigenvectors]
  IN IF matrix.cols # matrix.rows
     THEN CallResult(flagged, "aborted", NoQr, {}, TRUE)
     ELSE LET n == matrix.cols
              eivalues == ResizeVector(flagged.eivalues, n, u)
              eivec == ResizeMatrix(flagged.eivec, n, n, u)
          IN IF n = 1
             THEN LET vals == [eivalues EXCEPT ![0] = SoleEigenvalue(matrix)]
                      vecs == setOnes(eivec)
                  IN CallResult([flagged EXCEPT !.eivalues = vals,
                                                !.eivec = vecs],
                                "idle", [vals |-> vals, vecs |-> vecs], {},
                                TRUE)
             ELSE LET s == SortEigen(qr, n)
                  IN CallResult([flagged EXCEPT !.eivalues = s.vals,
                                                !.eivec = s.vecs,
                                                !.subdiag = ZeroVec(n - 1)],
                                "idle", qr,
                                {"tridiagonalization", "qr iteration", "sort"},
                                TRUE)

\* LLT<MatrixType> cholB(matB) for a diagonal matB: the diagonal of L
CholeskyDiagonal(matB) ==
  [i \in Idx(matB.rows) |-> QSqrt(ei_real(matB.e[i][i]))]

\* solveInPlace doing nothing
solveInPlaceNothing(L, C) == C

\* lines 288, 291: cholB.matrixL().solveInPlace(matC), L diagonal
solveInPlaceLower(L, C) ==
  [C EXCEPT !.e = [i \in Idx(C.rows) |-> [j \in Idx(C.cols) |->
                     CDivReal(C.e[i][j], L[i])]]]

\* lines 290, 292: matC.adjointInPlace()
adjointInPlace(C) ==
  [rows |-> C.cols, cols |-> C.rows,
   e |-> [i \in Idx(C.cols) |-> [j \in Idx(C.rows) |-> ei_conj(C.e[j][i])]]]

\* line 306: cholB.matrixU().solveInPlace(m_eivec), U diagonal
solveInPlaceUpper(L, eivec) ==
  [j \in DOMAIN eivec |-> [i \in DOMAIN eivec[j] |-> QDiv(eivec[j][i], L[i])]]

\* line 308: col.normalized(); a norm that is not rational leaves the
\* column unmodelled
normalized(col) ==
  LET norm == stableNorm(col, Cardinality(DOMAIN col))
  IN [i \in DOMAIN col |->
        IF norm = Irrational THEN Irrational ELSE QDiv(col[i], norm)]

\* compute(matA, matB, computeEigenvectors), lines 279-311, for a diagonal
\* matB
computeGeneralized(solver, matA, matB, computeEigenvectors, qr, u) ==
  IF ~(matA.cols = matA.rows /\ matB.rows = matA.rows /\ matB.cols = matB.rows)
  THEN CallResult(solver, "aborted", NoQr, {}, FALSE)
  ELSE LET L == CholeskyDiagonal(matB)
           matC == adjointInPlace(solveInPlaceLower(L,
                     adjointInPlace(solveInPlaceLower(L, matA))))
           res == computeSelfAdjoint(solver, matC, computeEigenvectors, qr, u)
           back == solveInPlaceUpper(L, res.solver.eivec)
       IN IF computeEigenvectors
          THEN [res EXCEPT !.solver.eivec =
                             [j \in DOMAIN back |-> normalized(back[j])]]
          ELSE res

\* lines 102-104: the members after SelfAdjointEigenSolver(int size)
SizedSolver(size, u, indeterminate) ==
  Solver(FilledMatrix(size, u), [i \in Idx(size) |-> u],
         [i \in Idx(size - 1) |-> u], indeterminate)

\* lines 113-117 (and 129-133): the members when the constructor calls
\* compute; m_eigenvectorsOk has no initializer
MemberInit(matrix, u, indeterminate) ==
  Solver(FilledRect(matrix.rows, matrix.cols, u),
         [i \in Idx(matrix.cols) |-> u],
         [i \in Idx(IF matrix.rows > 1 THEN matrix.rows - 1 ELSE 0) |-> u],
         indeterminate)

\* SelfAdjointEigenSolver(int size): storage of the given size with
\* unspecified contents; m_eigenvectorsOk has no initializer
ConstructSize(size) ==
  /\ eig_pc = "none"
  /\ \E u \in Garbage, indeterminate \in BOOLEAN :
       LET solver == SizedSolver(size, u, indeterminate)
       IN /\ m_eivec' = solver.eivec
          /\ m_eivalues' = solver.eivalues
          /\ m_subdiag' = solver.subdiag
          /\ m_eigenvectorsOk' = solver.eigenvectorsOk
  /\ eig_pc' = "idle"
  /\ UNCHANGED <<eig_requested, eig_qr, eig_ret, eig_call>>
  /\ UNCHANGED <<luVars, dlVars, boxVars, qrVars>>

\* the values reallocated storage can hold when `solver` is resized for
\* an n x n problem: nothing is reallocated when the sizes already agree
ResizeGarbage(solver, n) ==
  IF Cardinality(DOMAIN solver.eivalues) = n /\ MatrixRows(solver.eivec) = n
     /\ MatrixCols(solver.eivec) = n
  THEN {QZero} ELSE Garbage

\* the members whose value differs between two states of the solver
WrittenMembers(before, after) ==
  {name \in {"m_eivec", "m_eivalues", "m_subdiag", "m_eigenvectorsOk"} :
     CASE name = "m_eivec" -> after.eivec # before.eivec
       [] name = "m_eivalues" -> after.eivalues # before.eivalues
       [] name = "m_subdiag" -> after.subdiag # before.subdiag
       [] name = "m_eigenvectorsOk" ->
            after.eigenvectorsOk # before.eigenvectorsOk}

\* what the object was when a call on an existing object began
PriorOf(solver, matrix) ==
  IF Cardinality(DOMAIN solver.eivalues) = matrix.cols
  THEN "same size" ELSE "other size"

\* the state a call leaves: res, as computeSelfAdjoint or
\* computeGeneralized gives it for the solver `before`
ComputeBody(res, kind, matA, matB, before, prior, computeEigenvectors) ==
  /\ m_eivec' = res.solver.eivec
  /\ m_eivalues' = res.solver.eivalues
  /\ m_subdiag' = res.solver.subdiag
  /\ m_eigenvectorsOk' = res.solver.eigenvectorsOk
  /\ eig_pc' = res.pc
  /\ eig_qr' = IF res.pc = "aborted" THEN eig_qr ELSE res.qr
  /\ eig_requested' = IF ~res.entered THEN eig_requested
                      ELSE IF computeEigenvectors THEN "true" ELSE "false"
  /\ eig_ret' = "none"
  /\ eig_call' = [kind |-> kind, matA |-> matA, matB |-> matB,
                  prior |-> prior,
                  written |-> IF res.pc = "aborted"
                              THEN WrittenMembers(before, res.solver)
                              ELSE {},
                  steps |-> res.steps]

\* SelfAdjointEigenSolver(matrix, computeEigenvectors)
ConstructCompute(matrix, computeEigenvectors) ==
  /\ eig_pc = "none"
  /\ \E u \in Garbage, indeterminate \in BOOLEAN, qr \in QrOutcomes(matrix) :
       LET before == MemberInit(matrix, u, indeterminate)
       IN ComputeBody(computeSelfAdjoint(before, matrix, computeEigenvectors,
                                         qr, u),
                      "compute", matrix, NoMatrix, before, "constructor",
                      computeEigenvectors)
  /\ UNCHANGED <<luVars, dlVars, boxVars, qrVars>>

\* compute(matrix, computeEigenvectors) on an existing object
Compute(matrix, computeEigenvectors) ==
  /\ eig_pc = "idle"
  /\ \E u \in ResizeGarbage(ThisSolver, matrix.cols),
        qr \in QrOutcomes(matrix) :
       ComputeBody(computeSelfAdjoint(ThisSolver, matrix, computeEigenvectors,
                                      qr, u),
                   "compute", matrix, NoMatrix, ThisSolver,
                   PriorOf(ThisSolver, matrix), computeEigenvectors)
  /\ UNCHANGED <<luVars, dlVars, boxVars, qrVars>>

\* SelfAdjointEigenSolver(matA, matB, computeEigenvectors)
ConstructComputeGeneralized(matA, matB, computeEigenvectors) ==
  /\ eig_pc = "none"
  /\ \E u \in Garbage, indeterminate \in BOOLEAN, qr \in QrOutcomes(matA) :
       LET before == MemberInit(matA, u, indeterminate)
       IN ComputeBody(computeGeneralized(before, matA, matB,
                                         computeEigenvectors, qr, u),
                      "generalized", matA, matB, before, "constructor",
                      computeEigenvectors)
  /\ UNCHANGED <<luVars, dlVars, boxVars, qrVars>>

\* compute(matA, matB, computeEigenvectors) on an existing object
ComputeGeneralized(matA, matB, computeEigenvectors) ==
  /\ eig_pc = "idle"
  /\ \E u \in ResizeGarbage(ThisSolver, matA.cols), qr \in QrOutcomes(matA) :
       ComputeBody(computeGeneralized(ThisSolver, matA, matB,
                                      computeEigenvectors, qr, u),
                   "generalized", matA, matB, ThisSolver,
                   PriorOf(ThisSolver, matA), computeEigenvectors)
  /\ UNCHANGED <<luVars, dlVars, boxVars, qrVars>>

\* eigenvectors(): ei_assert(m_eigenvectorsOk); return m_eivec
Eigenvectors ==
  /\ eig_pc = "idle"
  /\ IF m_eigenvectorsOk
     THEN /\ eig_ret' = "returned"
          /\ UNCHANGED eig_pc
     ELSE /\ eig_pc' = "aborted"
          /\ eig_ret' = "assert"
  /\ UNCHANGED <<m_eivec, m_eivalues, m_subdiag, m_eigenvectorsOk,
                 eig_requested, eig_qr, eig_call>>
  /\ UNCHANGED <<luVars, dlVars, boxVars, qrVars>>

\* an object used for standard problems
NextEig ==
  \/ \E size \in 1 .. MaxN : ConstructSize(size)
  \/ \E matrix \in InputMatrices, f \in BOOLEAN : ConstructCompute(matrix, f)
  \/ \E matrix \in InputMatrices, f \in BOOLEAN : Compute(matrix, f)
  \/ Eigenvectors

\* an object used for generalized problems
NextEigGeneralized ==
  \/ \E size \in 1 .. MaxN : ConstructSize(size)
  \/ \E in \in GeneralizedInputs, f \in BOOLEAN :
       ConstructComputeGeneralized(in[1], in[2], f)
  \/ \E in \in GeneralizedInputs, f \in BOOLEAN :
       ComputeGeneralized(in[1], in[2], f)
  \/ Eigenvectors

(***************************************************************************)
(* ei_dogleg(r__, diag, qtb, delta, x)  (src/unnamed/part_010).            *)
(* The packed factor r__ is a function on 0 .. n(n+1)/2 - 1, the vectors   *)
(* are functions on 0 .. n-1.  Scalar is instantiated with the exact       *)
(* rationals.  A norm that is not rational is the value Irrational; a run  *)
(* that needs such a norm is reported with path "irrational" and its x is  *)
(* not modelled.                                                           *)
(***************************************************************************)
\* line 16: epsilon<Scalar>() of the model's Scalar
epsmch == Q(1, 4)

\* stableNorm(v) <= delta, decided on the squares
NormLe(v, n, delta) ==
  /\ QLe(QZero, delta)
  /\ QLe(squaredNorm(v, n), QMul(delta, delta))

PackedSize(n) == (n * (n + 1)) \div 2

\* r__[l]; a read past the end of the array yields the indeterminate g
ReadR(r, l, g) == IF l \in DOMAIN r THEN r[l] ELSE g

\* lines 34-38: sum += r__[l] * x[i], ++l, for i = i .. n-1
RECURSIVE GnRowSum(_, _, _, _, _, _, _)
GnRowSum(r, x, n, i, l, sum, g) ==
  IF i >= n THEN sum
  ELSE GnRowSum(r, x, n, i + 1, l + 1,
                QAdd(sum, QMul(ReadR(r, l, g), x[i])), g)

\* lines 45-50: the scan that starts at l = j; reads collects the indices read
RECURSIVE ColumnScan(_, _, _, _, _, _, _, _)
ColumnScan(r, n, j, i, l, temp, reads, g) ==
  IF i > j THEN [temp |-> temp, reads |-> reads]
  ELSE ColumnScan(r, n, j, i + 1, l + n - i,
                  QMax(temp, QAbs(ReadR(r, l, g))), reads \cup {l}, g)

\* lines 40-54: the divisor of x[j] and the indices the scan read
Pivot(r, n, j, jj, g) ==
  IF ~IsZero(ReadR(r, jj, g)) THEN [temp |-> ReadR(r, jj, g), reads |-> {}]
  ELSE LET s == ColumnScan(r, n, j, 0, j, QZero, {}, g)
           t == QMul(epsmch, s.temp)
       IN [temp |-> IF IsZero(t) THEN epsmch ELSE t, reads |-> s.reads]

\* lines 24-40: the indices of r__ the back substitution reads in
\* iterations k .. n-1: the diagonal position jj and, from l = jj + 1 on, one
\* position for each i = jp1 .. n-1
RECURSIVE GnReadIndices(_, _, _)
GnReadIndices(n, k, jj0) ==
  IF k >= n THEN {}
  ELSE LET j == n - k - 1
           jj == jj0 - (k + 1)
       IN {jj} \cup {(jj + 1) + (i - (j + 1)) : i \in (j + 1) .. (n - 1)}
          \cup GnReadIndices(n, k + 1, jj)

\* lines 76-83 (and 105-112): the indices of r__ a row-by-row pass reads
\* from row j on, l the position it has reached
RECURSIVE RowPassIndices(_, _, _)
RowPassIndices(n, j, l) ==
  IF j >= n THEN {}
  ELSE {l + (i - j) : i \in j .. (n - 1)}
       \cup RowPassIndices(n, j + 1, l + (n - j))

\* the row sum taking in x[j] itself
GnFirstColumnAtDiagonal(j) == j

\* line 27: jp1 = j + 1, the first component of x the row sum reads
GnFirstColumn(j) == j + 1

\* GnRowSum starting one position early (at the diagonal)
GnRowStartAtDiagonal(jj) == jj

\* line 29: l = jj + 1
GnRowStart(jj) == jj + 1

\* the substituted pivot written back into the packed factor
FactorWithPivotStored(r, jj, temp) ==
  IF jj \in DOMAIN r THEN [r EXCEPT ![jj] = temp] ELSE r

\* lines 40-56: the divisor lives in the local temp; no statement of the
\* function assigns to r__
FactorAfterPivot(r, jj, temp) == r

\* lines 25-58, iterations k .. n-1; st = [r, x, jj, scan, div], r the
\* packed factor as the iterations so far have left it
RECURSIVE GaussNewton(_, _, _, _, _, _)
GaussNewton(r, qtb, n, k, st, g) ==
  IF k >= n THEN st
  ELSE LET j == n - k - 1
           jj == st.jj - (k + 1)
           sum == GnRowSum(r, st.x, n, GnFirstColumn(j), GnRowStart(jj),
                           QZero, g)
           p == Pivot(r, n, j, jj, g)
           r1 == FactorAfterPivot(r, jj, p.temp)
       IN GaussNewton(r1, qtb, n, k + 1,
            [r |-> r1,
             x |-> [st.x EXCEPT ![j] = QDiv(QSub(qtb[j], sum), p.temp)],
             jj |-> jj,
             scan |-> [st.scan EXCEPT ![j] = p.reads],
             div |-> [st.div EXCEPT ![j] = p.temp]], g)

\* lines 79-83: wa1[i] += r__[l] * temp, ++l, for i = i .. n-1
RECURSIVE GradientRow(_, _, _, _, _, _, _)
GradientRow(r, wa1, n, i, l, temp, g) ==
  IF i >= n THEN wa1
  ELSE GradientRow(r, [wa1 EXCEPT ![i] = QAdd(@, QMul(ReadR(r, l, g), temp))],
                   n, i + 1, l + 1, temp, g)

\* lines 77-86, iterations j .. n-1
RECURSIVE Gradient(_, _, _, _, _, _, _, _)
Gradient(r, diag, qtb, n, j, l, wa1, g) ==
  IF j >= n THEN wa1
  ELSE LET w == GradientRow(r, wa1, n, j, l, qtb[j], g)
       IN Gradient(r, diag, qtb, n, j + 1, l + (n - j),
                   [w EXCEPT ![j] = QDiv(@, diag[j])], g)

\* lines 107-112: sum of r__[l] * wa1[i], ++l, for i = i .. n-1
RECURSIVE RTimesRow(_, _, _, _, _, _, _)
RTimesRow(r, wa1, n, i, l, sum, g) ==
  IF i >= n THEN sum
  ELSE RTimesRow(r, wa1, n, i + 1, l + 1,
                 QAdd(sum, QMul(ReadR(r, l, g), wa1[i])), g)

\* lines 105-115, iterations j .. n-1
RECURSIVE RTimes(_, _, _, _, _, _, _)
RTimes(r, wa1, n, j, l, wa2, g) ==
  IF j >= n THEN wa2
  ELSE RTimes(r, wa1, n, j + 1, l + (n - j),
              [wa2 EXCEPT ![j] = RTimesRow(r, wa1, n, j, l, QZero, g)], g)

\* lines 130-135: alpha of the interpolated point
DoglegAlpha(bnorm, gnorm, qnorm, sgnorm, delta) ==
  LET dq == QDiv(delta, qnorm)
      sd == QDiv(sgnorm, delta)
      one_dq2 == QSub(QOne, QMul(dq, dq))
      one_sd2 == QSub(QOne, QMul(sd, sd))
      t0 == QMul(QMul(QDiv(bnorm, gnorm), QDiv(bnorm, qnorm)), sd)
      t0_dq == QSub(t0, dq)
      root == QSqrt(QAdd(QMul(t0_dq, t0_dq), QMul(one_dq2, one_sd2)))
      temp == QAdd(QSub(t0, QMul(dq, QMul(sd, sd))), root)
  IN QDiv(QMul(dq, one_sd2), temp)

\* line 141 without the minimum
CombineScaleNoMin(alpha, sgnorm, delta) == QMul(QSub(QOne, alpha), sgnorm)

\* line 141: temp = (1 - alpha) * min(sgnorm, delta)
CombineScale(alpha, sgnorm, delta) ==
  QMul(QSub(QOne, alpha), QMin(sgnorm, delta))

\* lines 141-144
Combine(n, alpha, sgnorm, delta, wa1, x) ==
  LET temp == CombineScale(alpha, sgnorm, delta)
  IN [j \in Idx(n) |-> QAdd(QMul(temp, wa1[j]), QMul(alpha, x[j]))]

\* the result when a norm of the run is not rational
Unmodelled(n, out) ==
  [out EXCEPT !.path = "irrational", !.x = [j \in Idx(n) |-> Irrational]]

\* lines 91-145: the run from the norm of the scaled gradient on
ScaledGradientStep(r, diag, qtb, delta, n, out, qnorm, wa1g, g) ==
  LET gnorm == stableNorm(wa1g, n)
  IN IF ~IsFinite(gnorm) THEN Unmodelled(n, out)
     ELSE IF IsZero(gnorm)
     THEN LET alpha == QDiv(delta, qnorm)
          IN [out EXCEPT !.path = "zero gradient", !.alpha = alpha,
                         !.wa1 = wa1g, !.qnorm = qnorm, !.gnorm = gnorm,
                         !.x = Combine(n, alpha, QZero, delta, wa1g, out.gn)]
     ELSE LET wa1 == [j \in Idx(n) |-> QDiv(QDiv(wa1g[j], gnorm), diag[j])]
              wa2 == RTimes(r, wa1, n, 0, 0, [j \in Idx(n) |-> QZero], g)
              temp == stableNorm(wa2, n)
              sgnorm == QDiv(QDiv(gnorm, temp), temp)
          IN IF ~IsFinite(temp) THEN Unmodelled(n, out)
             ELSE IF QLe(delta, sgnorm)
             THEN [out EXCEPT !.path = "scaled gradient", !.alpha = QZero,
                              !.sgnorm = sgnorm, !.wa1 = wa1,
                                      !.qnorm = qnorm, !.gnorm = gnorm,
                              !.x = Combine(n, QZero, sgnorm, delta, wa1,
                                            out.gn)]
             ELSE LET bnorm == stableNorm(qtb, n)
                      alpha == DoglegAlpha(bnorm, gnorm, qnorm, sgnorm, delta)
                  IN IF ~IsFinite(alpha) THEN Unmodelled(n, out)
                     ELSE [out EXCEPT !.path = "interpolated",
                                      !.alpha = alpha,
                                      !.sgnorm = sgnorm, !.wa1 = wa1,
                                      !.qnorm = qnorm, !.gnorm = gnorm,
                                      !.x = Combine(n, alpha, sgnorm, delta,
                                                    wa1, out.gn)]

\* lines 24-145 for arguments of matching sizes; the result is the record
\*   r      : the packed factor r__ on return
\*   x      : the vector x on return
\*   gn     : x as the back substitution left it (line 58)
\*   path   : "gn", "zero gradient", "scaled gradient", "interpolated",
\*            or "irrational"
\*   scan   : for every j, the indices of r__ the scan of lines 44-50 read
\*   div    : for every j, the divisor of line 56
\*   alpha, sgnorm, wa1 : the locals at line 141
\*   qnorm, gnorm : the locals of lines 67 and 91 (0 when not computed)
dogleg(r, diag, qtb, delta, x, g) ==
  LET n == Cardinality(DOMAIN diag)
      st == GaussNewton(r, qtb, n, 0,
                        [r |-> r, x |-> x, jj |-> PackedSize(n),
                         scan |-> [j \in Idx(n) |-> {}],
                         div |-> [j \in Idx(n) |-> QZero]], g)
      wa2 == [j \in Idx(n) |-> QMul(diag[j], st.x[j])]
      out == [r |-> st.r, x |-> st.x, gn |-> st.x, path |-> "gn",
              scan |-> st.scan,
              div |-> st.div, alpha |-> QOne, sgnorm |-> QZero,
                   qnorm |-> QZero, gnorm |-> QZero,
              wa1 |-> [j \in Idx(n) |-> QZero]]
  IN IF NormLe(wa2, n, delta) THEN out
     ELSE LET qnorm == stableNorm(wa2, n)
              wa1g == Gradient(st.r, diag, qtb, n, 0, 0,
                               [j \in Idx(n) |-> QZero], g)
          IN IF ~IsFinite(qnorm) THEN Unmodelled(n, out)
             ELSE ScaledGradientStep(st.r, diag, qtb, delta, n, out, qnorm,
                                     wa1g, g)

(***************************************************************************)
(* Calls of ei_dogleg.                                                     *)
(***************************************************************************)
\* position (i, j), i <= j, of an upper triangular matrix stored by rows
PackedIndex(n, i, j) == i * n - ((i * (i - 1)) \div 2) + (j - i)

Pack(n, R(_, _)) ==
  [l \in 0 .. (PackedSize(n) - 1) |->
     LET p == CHOOSE p \in Idx(n) \X Idx(n) :
                p[1] <= p[2] /\ PackedIndex(n, p[1], p[2]) = l
     IN R(p[1], p[2])]

DoglegSeeds == {0, 1, 2, 3}

\* seed 0: the identity; seed 1: non-singular; seed 2: R[0][0] = 0;
\* seed 3: R[1][1] = 0 (R[0][0] = 0 when n = 1)
FactorEntry(seed, n, i, j) ==
  IF seed = 0 THEN (IF i = j THEN QOne ELSE QZero)
  ELSE IF i = j
       THEN IF (seed = 2 /\ i = 0) \/ (seed = 3 /\ i = (IF n = 1 THEN 0 ELSE 1))
            THEN QZero
            ELSE QI(i + seed)
       ELSE QI(((seed * (i + 1) + 2 * j + i) % 4) - 1)

PackedFactor(seed, n) ==
  LET R(i, j) == FactorEntry(seed, n, i, j) IN Pack(n, R)

ScalingIds == {0, 1}

Scaling(id, n) == [j \in Idx(n) |-> IF id = 0 THEN QOne ELSE QI(1 + (j % 2))]

QtbIds == {0, 1, 2}

Qtb(id, n) ==
  [j \in Idx(n) |->
     IF id = 0 THEN (IF j = 0 THEN QI(3) ELSE IF j = 1 THEN QI(4) ELSE QZero)
     ELSE IF id = 1 THEN (IF j = 0 THEN QI(2) ELSE QZero)
     ELSE QI(1 - 2 * (j % 2))]

DeltaValues == {Q(1, 2), QI(2), QI(10)}

StartValues == {QZero, QI(7)}

Vec2(a, b) == [j \in Idx(2) |-> IF j = 0 THEN a ELSE b]

Packed2(a, b, c) == [l \in 0 .. 2 |-> IF l = 0 THEN a ELSE IF l = 1 THEN b ELSE c]

\* arguments [r, diag, qtb, delta, x] of one call
DoglegInputs ==
  { [r |-> PackedFactor(seed, n), diag |-> Scaling(d, n), qtb |-> Qtb(q, n),
     delta |-> delta, x |-> [j \in Idx(n) |-> x0]] :
      n \in 1 .. MaxN, seed \in DoglegSeeds, d \in ScalingIds, q \in QtbIds,
      delta \in DeltaValues, x0 \in StartValues }
  \cup
  { \* rational norms on the interpolated exit
    [r |-> Packed2(Q(1, 4), QI(-1), Q(3, 4)), diag |-> Vec2(QOne, QI(3)),
     qtb |-> Vec2(QZero, QOne), delta |-> Q(60, 41),
     x |-> Vec2(QZero, QZero)],
    \* the same with R[0][0] = 0
    [r |-> Packed2(QZero, QI(3), Q(5, 4)), diag |-> Vec2(QOne, QI(4)),
     qtb |-> Vec2(QI(4), QI(3)), delta |-> Q(116, 13),
     x |-> Vec2(QZero, QZero)],
    \* qtb.size() differs from diag.size()
    [r |-> Packed2(QOne, QZero, QOne), diag |-> Vec2(QOne, QOne),
     qtb |-> [j \in Idx(1) |-> QOne], delta |-> QOne,
     x |-> Vec2(QZero, QZero)],
    \* x.size() differs from diag.size()
    [r |-> Packed2(QOne, QZero, QOne), diag |-> Vec2(QOne, QOne),
     qtb |-> Vec2(QOne, QOne), delta |-> QOne,
     x |-> [j \in Idx(1) |-> QZero]] }

NoDoglegOut ==
  [r |-> ZeroVec(0), x |-> ZeroVec(0), gn |-> ZeroVec(0), path |-> "none",
   scan |-> [j \in Idx(0) |-> {}], div |-> ZeroVec(0), alpha |-> QZero,
   sgnorm |-> QZero, qnorm |-> QZero, gnorm |-> QZero,
   wa1 |-> ZeroVec(0)]

\* no call of ei_dogleg
NoDogleg ==
  /\ dl_pc = "none"
  /\ dl_r = ZeroVec(0)
  /\ dl_diag = ZeroVec(0)
  /\ dl_qtb = ZeroVec(0)
  /\ dl_delta = QZero
  /\ dl_x = ZeroVec(0)
  /\ dl_entry = [r |-> ZeroVec(0), diag |-> ZeroVec(0), qtb |-> ZeroVec(0),
                 delta |-> QZero, x |-> ZeroVec(0)]
  /\ dl_out = NoDoglegOut

\* a caller about to call ei_dogleg
InitDoglegVars ==
  \E in \in DoglegInputs :
    /\ dl_pc = "entry"
    /\ dl_r = in.r
    /\ dl_diag = in.diag
    /\ dl_qtb = in.qtb
    /\ dl_delta = in.delta
    /\ dl_x = in.x
    /\ dl_entry = in
    /\ dl_out = NoDoglegOut

\* lines 1-147: one call; g is what a read past the end of r__ yields.
\* r__ and x are references the function may write through; diag and qtb
\* are references to const, delta is passed by value
Dogleg ==
  /\ dl_pc = "entry"
  /\ LET n == Cardinality(DOMAIN dl_diag)
     IN IF n # Cardinality(DOMAIN dl_qtb) \/ n # Cardinality(DOMAIN dl_x)
        THEN /\ dl_pc' = "aborted"
             /\ UNCHANGED <<dl_r, dl_x, dl_out>>
        ELSE \E g \in Garbage :
               LET out == dogleg(dl_r, dl_diag, dl_qtb, dl_delta, dl_x, g)
               IN /\ dl_pc' = "returned"
                  /\ dl_r' = out.r
                  /\ dl_x' = out.x
                  /\ dl_out' = out
  /\ UNCHANGED <<dl_diag, dl_qtb, dl_delta, dl_entry>>
  /\ UNCHANGED <<luVars, eigVars, boxVars, qrVars>>

NextDogleg == Dogleg

(***************************************************************************)
(* AlignedBox (src/unnamed/part_001).  Coordinates are integers between    *)
(* ScalarTraits::lowest() and ScalarTraits::highest(); a vector is a       *)
(* function on 0 .. size-1.                                                *)
(***************************************************************************)
\* src/unnamed/part_002 line 29: const int Dynamic
Dynamic == 10000

\* ScalarTraits::lowest() and ScalarTraits::highest() (lines 108-109): a
\* value below and one above every coordinate a caller uses
Lowest == -1

Highest == 2

\* the coordinates the callers use
Coords == 0 .. 1

Points(n) == [Idx(n) -> Coords]

\* lines 106-110
setEmpty(size) ==
  [m_min |-> [k \in Idx(size) |-> Highest],
   m_max |-> [k \in Idx(size) |-> Lowest]]

\* lines 75-76: m_min(_dim), m_max(_dim); a fixed-size VectorType has
\* AmbientDimAtCompileTime coefficients
AlignedBoxOfDim(ambient, _dim) ==
  setEmpty(IF ambient = Dynamic THEN _dim ELSE ambient)

\* lines 70-71: the default constructor; a dynamic box has vectors of size 0
AlignedBoxDefault(ambient) ==
  IF ambient = Dynamic THEN [m_min |-> <<>>, m_max |-> <<>>]
  ELSE setEmpty(ambient)

\* lines 79-80
AlignedBoxOfCorners(_min, _max) == [m_min |-> _min, m_max |-> _max]

cwiseMin(a, b) == [k \in DOMAIN a |-> IF b[k] < a[k] THEN b[k] ELSE a[k]]

cwiseMax(a, b) == [k \in DOMAIN a |-> IF a[k] < b[k] THEN b[k] ELSE a[k]]

\* line 94
dim(ambient, box) ==
  IF ambient = Dynamic THEN Cardinality(DOMAIN box.m_min) - 1 ELSE ambient

\* line 103
isEmpty(box) == \E k \in DOMAIN box.m_min : box.m_min[k] > box.m_max[k]

\* lines 197-198
contains(box, b) ==
  /\ \A k \in DOMAIN box.m_min : box.m_min[k] <= b.m_min[k]
  /\ \A k \in DOMAIN box.m_max : b.m_max[k] <= box.m_max[k]

\* lines 202-208
extendPoint(box, p) ==
  [m_min |-> cwiseMin(box.m_min, p), m_max |-> cwiseMax(box.m_max, p)]

\* lines 211-216
extend(box, b) ==
  [m_min |-> cwiseMin(box.m_min, b.m_min),
   m_max |-> cwiseMax(box.m_max, b.m_max)]

\* lines 219-224 with the two coefficient-wise operations exchanged
clampExchanged(box, b) ==
  [m_min |-> cwiseMin(box.m_min, b.m_min),
   m_max |-> cwiseMax(box.m_max, b.m_max)]

\* lines 219-224
clamp(box, b) ==
  [m_min |-> cwiseMax(box.m_min, b.m_min),
   m_max |-> cwiseMin(box.m_max, b.m_max)]

\* lines 313-326: the loop from coordinate k on, bound the dim() of line 313
RECURSIVE ExteriorLoop(_, _, _, _, _)
ExteriorLoop(box, p, k, bound, dist2) ==
  IF k >= bound THEN [value |-> dist2, visited |-> k]
  ELSE IF box.m_min[k] > p[k]
       THEN ExteriorLoop(box, p, k + 1, bound,
              dist2 + (box.m_min[k] - p[k]) * (box.m_min[k] - p[k]))
       ELSE IF p[k] > box.m_max[k]
            THEN ExteriorLoop(box, p, k + 1, bound,
                   dist2 + (p[k] - box.m_max[k]) * (p[k] - box.m_max[k]))
            ELSE ExteriorLoop(box, p, k + 1, bound, dist2)

\* lines 307-328
squaredExteriorDistance(ambient, box, p) ==
  ExteriorLoop(box, p, 0, dim(ambient, box), 0)

NoBoxRet == [op |-> "none", p |-> <<>>, value |-> 0, visited |-> 0]

NoBox ==
  /\ box_pc = "none"
  /\ box_ambient = 0
  /\ box_dim = 0
  /\ b0 = setEmpty(0)
  /\ b1 = setEmpty(0)
  /\ b2 = setEmpty(0)
  /\ box_ret = NoBoxRet

\* src/test/alignedbox.cpp lines 45-47: BoxType b0(dim); b2 is default
\* constructed; b1 gets its two random corners (line 46) when line 54 uses it
InitBoxVars ==
  \E ambient \in {Dynamic} \cup (1 .. MaxN), _dim \in 1 .. MaxN :
    /\ ambient # Dynamic => _dim = ambient
    /\ box_pc = "built"
    /\ box_ambient = ambient
    /\ box_dim = _dim
    /\ b0 = AlignedBoxOfDim(ambient, _dim)
    /\ b1 = AlignedBoxDefault(ambient)
    /\ b2 = AlignedBoxDefault(ambient)
    /\ box_ret = NoBoxRet

\* test lines 49-50: b0.extend(p)
ExtendPoint ==
  /\ box_pc = "built"
  /\ \E p \in Points(box_dim) :
       b0' = extendPoint(b0, p)
  /\ box_ret' = NoBoxRet
  /\ UNCHANGED <<box_pc, box_ambient, box_dim, b1, b2>>
  /\ UNCHANGED <<luVars, eigVars, dlVars, qrVars>>

\* b0.dim()
Dim ==
  /\ box_pc = "built"
  /\ box_ret' = [op |-> "dim", p |-> <<>>, value |-> dim(box_ambient, b0),
                 visited |-> 0]
  /\ UNCHANGED <<box_pc, box_ambient, box_dim, b0, b1, b2>>
  /\ UNCHANGED <<luVars, eigVars, dlVars, qrVars>>

\* b0.squaredExteriorDistance(p)
SquaredExteriorDistance ==
  /\ box_pc = "built"
  /\ \E p \in Points(box_dim) :
       LET res == squaredExteriorDistance(box_ambient, b0, p)
       IN box_ret' = [op |-> "squaredExteriorDistance", p |-> p,
                      value |-> res.value, visited |-> res.visited]
  /\ UNCHANGED <<box_pc, box_ambient, box_dim, b0, b1, b2>>
  /\ UNCHANGED <<luVars, eigVars, dlVars, qrVars>>

\* test line 54: (b2 = b0).extend(b1), b1 the box of two random corners
CopyExtend ==
  /\ box_pc = "built"
  /\ \E _min \in Points(box_dim), _max \in Points(box_dim) :
       /\ b1' = AlignedBoxOfCorners(_min, _max)
       /\ b2' = extend(b0, b1')
  /\ box_pc' = "copied"
  /\ box_ret' = NoBoxRet
  /\ UNCHANGED <<box_ambient, box_dim, b0>>
  /\ UNCHANGED <<luVars, eigVars, dlVars, qrVars>>

\* test line 57: b2.clamp(b0)
Clamp ==
  /\ box_pc = "copied"
  /\ b2' = clamp(b2, b0)
  /\ box_pc' = "clamped"
  /\ UNCHANGED <<box_ambient, box_dim, b0, b1, box_ret>>
  /\ UNCHANGED <<luVars, eigVars, dlVars, qrVars>>

NextBox ==
  \/ ExtendPoint
  \/ Dim
  \/ SquaredExteriorDistance
  \/ CopyExtend
  \/ Clamp

(***************************************************************************)
(* The deflation loop of SelfAdjointEigenSolver::compute (part_000 lines   *)
(* 236-252) and ei_tridiagonal_qr_step (lines 369-409).  The loop's        *)
(* control flow depends on the values only through the tests == 0, != 0,   *)
(* ei_isMuchSmallerThan and through the shift of lines 372-374, so a       *)
(* RealScalar is kept as its magnitude class:                              *)
(*   "zero"    0                                                           *)
(*   "tiny"    non-zero, with a square that underflows to 0 (subdiagonal   *)
(*             entries only; a double below about 1e-162 in magnitude)     *)
(*   "normal"  any other finite value                                      *)
(*   "nan"     not a number                                                *)
(* Values the rotations compute from finite values are any finite class;   *)
(* values computed from a NaN are NaN.  Overflow is left out.              *)
(***************************************************************************)
DiagClasses == {"zero", "normal"}

SubdiagClasses == {"zero", "tiny", "normal"}

\* line 239: the class of ei_abs(diag[i]) + ei_abs(diag[i+1])
AbsSum(a, b) ==
  IF a = "nan" \/ b = "nan" THEN "nan"
  ELSE IF a = "zero" /\ b = "zero" THEN "zero"
  ELSE "normal"

\* ei_isMuchSmallerThan(e, s): ei_abs(e) <= ei_abs(s) * precision; the
\* results the values of the two classes can give
isMuchSmallerThan(e, s) ==
  IF e = "nan" \/ s = "nan" THEN {FALSE}
  ELSE IF e = "zero" THEN {TRUE}
  ELSE IF s = "zero" THEN {FALSE}
  ELSE BOOLEAN

\* lines 238-240: the entries of start .. end-1 the pass may set to zero
\* together
DeflationOutcomes(diag, subdiag, start, end) ==
  { z \in SUBSET (start .. (end - 1)) :
      \A i \in start .. (end - 1) :
        (i \in z) \in
          isMuchSmallerThan(subdiag[i], AbsSum(diag[i], diag[i + 1])) }

\* lines 243-244 with the test of m_subdiag[end-1] left out
ShrinkEndUntested(subdiag, end) == IF end > 0 THEN end - 1 ELSE end

\* lines 243-244: while (end>0 && m_subdiag[end-1]==0) end--
RECURSIVE ShrinkEnd(_, _)
ShrinkEnd(subdiag, end) ==
  IF end > 0 /\ subdiag[end - 1] = "zero"
  THEN ShrinkEnd(subdiag, end - 1)
  ELSE end

\* lines 248-249: while (start>0 && m_subdiag[start-1]!=0) start--
RECURSIVE GrowStart(_, _)
GrowStart(subdiag, start) ==
  IF start > 0 /\ subdiag[start - 1] # "zero"
  THEN GrowStart(subdiag, start - 1)
  ELSE start

\* line 372: whether td = (diag[end-1] - diag[end]) * 0.5 is zero, for the
\* values the two classes stand for
TdIsZero(a, b) ==
  IF a = "nan" \/ b = "nan" THEN {FALSE}
  ELSE IF a = "zero" /\ b = "zero" THEN {TRUE}
  ELSE IF a = "zero" \/ b = "zero" THEN {FALSE}
  ELSE BOOLEAN

\* line 373: whether e2 = ei_abs2(subdiag[end-1]) is zero
E2IsZero(e) == e \in {"zero", "tiny"}

\* line 374: the denominator td + (td>0 ? 1 : -1) * ei_sqrt(td*td + e2) is
\* zero exactly when td and e2 both are
DenominatorIsZero(tdZero, e) == tdZero /\ E2IsZero(e)

\* line 391
UpdatesPrevious(k, start) == k > start

\* line 396 with the test left out
UpdatesNextUntested(k, end) == TRUE

\* line 396
UpdatesNext(k, end) == k < end - 1

\* lines 378-408: the rotations from k on; st collects them in order, with
\* the indices of diag, subdiag and the columns of Q they assign
RECURSIVE Rotations(_, _, _, _, _)
Rotations(st, k, start, end, matrixQ) ==
  IF k >= end THEN st
  ELSE Rotations(
         [rotations |-> Append(st.rotations, k),
          diag |-> st.diag \cup {k, k + 1},
          subdiag |-> st.subdiag \cup {k}
                        \cup (IF UpdatesPrevious(k, start) THEN {k - 1} ELSE {})
                        \cup (IF UpdatesNext(k, end) THEN {k + 1} ELSE {}),
          Q |-> st.Q \cup (IF matrixQ THEN {k, k + 1} ELSE {})],
         k + 1, start, end, matrixQ)

\* lines 369-409: what one call does
tridiagonal_qr_step(start, end, matrixQ) ==
  Rotations([rotations |-> <<>>, diag |-> {}, subdiag |-> {}, Q |-> {}],
            start, start, end, matrixQ)

NoStep ==
  [start |-> -1, end |-> -1, rotations |-> <<>>, diag |-> {}, subdiag |-> {},
   Q |-> {}, keptDiag |-> <<>>, keptSubdiag |-> <<>>, keptQ |-> <<>>,
   denominatorZero |-> FALSE]

NoQR ==
  /\ qr_pc = "none"
  /\ qr_n = 0
  /\ qr_vectors = FALSE
  /\ qr_diag = <<>>
  /\ qr_subdiag = <<>>
  /\ qr_Q = <<>>
  /\ qr_start = 0
  /\ qr_end = 0
  /\ qr_last = NoStep

\* lines 214-236 for n > 1: decomposeInPlace has left a real tridiagonal
\* matrix of finite values in diag and m_subdiag; end = n-1, start = 0 and
\* the test of line 236 has passed
InitQRVars ==
  \E n \in 2 .. MaxN, computeEigenvectors \in BOOLEAN :
    \E diag \in [Idx(n) -> DiagClasses],
       subdiag \in [Idx(n - 1) -> SubdiagClasses] :
      /\ qr_pc = "deflate"
      /\ qr_n = n
      /\ qr_vectors = computeEigenvectors
      /\ qr_diag = diag
      /\ qr_subdiag = subdiag
      /\ qr_Q = [j \in Idx(n) |-> "tridiagonalized"]
      /\ qr_start = 0
      /\ qr_end = n - 1
      /\ qr_last = NoStep

\* lines 238-240
Deflate ==
  /\ qr_pc = "deflate"
  /\ \E z \in DeflationOutcomes(qr_diag, qr_subdiag, qr_start, qr_end) :
       qr_subdiag' = [i \in DOMAIN qr_subdiag |->
                        IF i \in z THEN "zero" ELSE qr_subdiag[i]]
  /\ qr_pc' = "find"
  /\ UNCHANGED <<qr_n, qr_vectors, qr_diag, qr_Q, qr_start, qr_end, qr_last>>
  /\ UNCHANGED <<luVars, eigVars, dlVars, boxVars>>

\* lines 243-249
FindBlock ==
  /\ qr_pc = "find"
  /\ LET end == ShrinkEnd(qr_subdiag, qr_end)
     IN /\ qr_end' = end
        /\ IF end <= 0
           THEN /\ qr_pc' = "sort"
                /\ UNCHANGED qr_start
           ELSE /\ qr_pc' = "step"
                /\ qr_start' = GrowStart(qr_subdiag, end - 1)
  /\ UNCHANGED <<qr_n, qr_vectors, qr_diag, qr_subdiag, qr_Q, qr_last>>
  /\ UNCHANGED <<luVars, eigVars, dlVars, boxVars>>

\* line 251 and lines 369-409, then the test of line 236 (end > 0 holds)
QrStep ==
  /\ qr_pc = "step"
  /\ LET w == tridiagonal_qr_step(qr_start, qr_end, qr_vectors)
         block == qr_start .. qr_end
         hasNaN == \/ \E k \in block : qr_diag[k] = "nan"
                   \/ \E k \in qr_start .. (qr_end - 1) : qr_subdiag[k] = "nan"
     IN \E tdZero \in TdIsZero(qr_diag[qr_end - 1], qr_diag[qr_end]) :
          LET zero == DenominatorIsZero(tdZero, qr_subdiag[qr_end - 1])
              dvals == IF zero \/ hasNaN THEN {"nan"} ELSE DiagClasses
              svals == IF zero \/ hasNaN THEN {"nan"} ELSE SubdiagClasses
          IN \E nd \in [w.diag -> dvals], ns \in [w.subdiag -> svals] :
               /\ qr_diag' = [k \in DOMAIN qr_diag |->
                                IF k \in w.diag THEN nd[k] ELSE qr_diag[k]]
               /\ qr_subdiag' = [k \in DOMAIN qr_subdiag |->
                                   IF k \in w.subdiag THEN ns[k]
                                   ELSE qr_subdiag[k]]
               /\ qr_Q' = [j \in DOMAIN qr_Q |->
                             IF j \in w.Q THEN "rotated" ELSE qr_Q[j]]
               /\ qr_last' =
                    [start |-> qr_start, end |-> qr_end,
                     rotations |-> w.rotations,
                     diag |-> w.diag, subdiag |-> w.subdiag, Q |-> w.Q,
                     keptDiag |-> [k \in DOMAIN qr_diag \ block |->
                                     qr_diag[k]],
                     keptSubdiag |->
                       [k \in DOMAIN qr_subdiag \ (qr_start .. (qr_end - 1))
                          |-> qr_subdiag[k]],
                     keptQ |-> [j \in DOMAIN qr_Q \
                                  (IF qr_vectors THEN block ELSE {}) |->
                                  qr_Q[j]],
                     denominatorZero |-> zero]
  /\ qr_pc' = "deflate"
  /\ UNCHANGED <<qr_n, qr_vectors, qr_start, qr_end>>
  /\ UNCHANGED <<luVars, eigVars, dlVars, boxVars>>

NextQR ==
  \/ Deflate
  \/ FindBlock
  \/ QrStep

(***************************************************************************)
(* Specifications: one per component; the other components do not exist.   *)
(***************************************************************************)
InitLU == InitLUVars /\ NoEig /\ NoDogleg /\ NoBox /\ NoQR

SpecLU == InitLU /\ [][NextLU]_vars

SpecLUObject == InitLU /\ [][NextLUObject]_vars

InitLUKnobs == InitLUSymmetricProfile /\ NoEig /\ NoDogleg /\ NoBox /\ NoQR

SpecLUKnobs == InitLUKnobs /\ [][NextLUObject]_vars

InitEig == NoLU /\ InitEigVars /\ NoDogleg /\ NoBox /\ NoQR

SpecEig == InitEig /\ [][NextEig]_vars

SpecEigGeneralized == InitEig /\ [][NextEigGeneralized]_vars

InitDogleg == NoLU /\ NoEig /\ InitDoglegVars /\ NoBox /\ NoQR

SpecDogleg == InitDogleg /\ [][NextDogleg]_vars

InitBox == NoLU /\ NoEig /\ NoDogleg /\ InitBoxVars /\ NoQR

SpecBox == InitBox /\ [][NextBox]_vars

InitQR == NoLU /\ NoEig /\ NoDogleg /\ NoBox /\ InitQRVars

SpecQR == InitQR /\ [][NextQR]_vars

\* a QR step after which the last subdiagonal entry of the block is zero
ConvergingStep == QrStep /\ qr_subdiag'[qr_end - 1] = "zero"

\* compute is one sequential call: it keeps taking steps until it returns
\* (weak fairness of the loop).  The QR iteration on finite values is taken
\* to converge: a block that can be stepped to a zero last subdiagonal
\* entry again and again eventually is (strong fairness of ConvergingStep).
SpecQRFair ==
  /\ InitQR
  /\ [][NextQR]_vars
  /\ WF_vars(NextQR)
  /\ SF_vars(ConvergingStep)

(***************************************************************************)
(* Properties of the eigen solver.                                         *)
(***************************************************************************)
EigSize == Cardinality(DOMAIN m_eivalues)

ComputeReturned == eig_pc = "idle" /\ eig_requested # "none"

Ascending(v, n) == \A i \in 0 .. (n - 2) : QLe(v[i], v[i + 1])

\* C3: after compute has returned the eigenvalues are in ascending order.
C3_EigenvaluesAscending ==
  ComputeReturned => Ascending(m_eivalues, EigSize)

\* a compute on n >= 3 whose QR phase left an unsorted diagonal holding a
\* repeated value, for either value of the flag
C3_Witness ==
  /\ ComputeReturned
  /\ EigSize >= 3
  /\ ~Ascending(eig_qr.vals, EigSize)
  /\ \E i, j \in Idx(EigSize) : i # j /\ eig_qr.vals[i] = eig_qr.vals[j]
  /\ Ascending(m_eivalues, EigSize)
  /\ eig_requested = "false"

\* the standard compute has returned (the generalized compute transforms
\* the columns again after the sort)
StandardComputeReturned == ComputeReturned /\ eig_call.kind = "compute"

\* C4: the sort permuted eigenvalues and eigenvector columns alike: some
\* permutation p maps every final (eigenvalue, column) pair to the pair
\* that stood at position p[i] before the sort.
C4_SortKeepsPairs ==
  StandardComputeReturned =>
    \E p \in Permutations(Idx(EigSize)) :
      \A i \in Idx(EigSize) :
        /\ m_eivalues[i] = eig_qr.vals[p[i]]
        /\ m_eivec[i] = eig_qr.vecs[p[i]]

\* a sort that really moved pairwise distinct columns
C4_Witness ==
  /\ StandardComputeReturned
  /\ EigSize >= 3
  /\ m_eivalues # eig_qr.vals
  /\ m_eivec # eig_qr.vecs
  /\ \A i, j \in Idx(EigSize) : i # j => eig_qr.vecs[i] # eig_qr.vecs[j]

\* C8: eigenvectors() returns exactly when the most recent compute asked
\* for eigenvectors, and fails its assertion otherwise (also when no
\* compute has run yet).
C8_EigenvectorsIffRequested ==
  /\ eig_ret = "returned" => eig_requested = "true"
  /\ eig_ret = "assert" => eig_requested # "true"

\* once a compute has run, eigenvectors() returns exactly when that
\* compute asked for eigenvectors
EigenvectorsIffRequestedAfterCompute ==
  eig_requested # "none" =>
    /\ eig_ret = "returned" => eig_requested = "true"
    /\ eig_ret = "assert" => eig_requested # "true"
    /\ m_eigenvectorsOk <=> eig_requested = "true"

\* the members the most recent compute would have left in a solver that a
\* constructor had just built with storage value u and flag `indeterminate`,
\* given the same arguments and the same outcome of lines 225-252
FreshResult(u, indeterminate) ==
  computeSelfAdjoint(MemberInit(eig_call.matA, u, indeterminate),
                     eig_call.matA, eig_requested = "true", eig_qr, u).solver

ReusedForOneByOne ==
  ~( /\ StandardComputeReturned
     /\ eig_call.prior = "other size"
     /\ EigSize = 1
     /\ m_eivec = FilledMatrix(1, QOne) )

\* a compute on an object that had computed a problem of the same size
ReusedForSameSize ==
  ~( /\ StandardComputeReturned
     /\ eig_call.prior = "same size"
     /\ EigSize >= 2
     /\ m_eivalues # eig_qr.vals )

\* C14: compute on a 1 x 1 matrix leaves the real part of the entry as the
\* sole eigenvalue and [1] as the eigenvector matrix, and runs neither the
\* tridiagonalization nor a QR step nor the sort.
C14_OneByOne ==
  (StandardComputeReturned /\ eig_call.matA.rows = 1 /\ eig_call.matA.cols = 1)
  => /\ m_eivalues = [i \in Idx(1) |-> eig_call.matA.e[0][0].re]
     /\ m_eivec = [j \in Idx(1) |-> [i \in Idx(1) |-> QOne]]
     /\ eig_call.steps = {}

\* compute of [2 + 3i], without eigenvectors, on an object that held a
\* larger problem
C14_Witness ==
  /\ StandardComputeReturned
  /\ eig_call.matA = Matrix1(QI(2), QI(3))
  /\ eig_call.prior = "other size"
  /\ eig_requested = "false"
  /\ m_eivalues[0] = QI(2)
  /\ eig_call.steps = {}

\* for a real 1 x 1 matrix [a], V * diag(lambda) * V^T = [a] exactly
OneByOneReconstructs ==
  ( /\ StandardComputeReturned
    /\ eig_call.matA.rows = 1 /\ eig_call.matA.cols = 1
    /\ IsZero(eig_call.matA.e[0][0].im) )
  => QMul(QMul(m_eivec[0][0], m_eivalues[0]), m_eivec[0][0])
       = eig_call.matA.e[0][0].re

\* a problem of size n > 1 runs the three phases
LargerProblemsRunAllPhases ==
  (StandardComputeReturned /\ eig_call.matA.cols > 1) =>
    eig_call.steps = {"tridiagonalization", "qr iteration", "sort"}

\* the generalized compute has returned for 1 x 1 arguments A = [a],
\* B = [b] with b positive
GeneralizedOneByOneReturned ==
  /\ ComputeReturned
  /\ eig_call.kind = "generalized"
  /\ eig_call.matA.rows = 1 /\ eig_call.matA.cols = 1
  /\ QLt(QZero, eig_call.matB.e[0][0].re)

SingularBReached ==
  ~( /\ ComputeReturned
     /\ eig_call.kind = "generalized"
     /\ eig_call.matB = Matrix1(QZero, QZero)
     /\ m_eivalues[0] = NonFinite )

\* a compute called on an existing object has failed its precondition
PreconditionFailed ==
  /\ eig_pc = "aborted"
  /\ eig_ret # "assert"
  /\ eig_call.prior # "constructor"

\* C18: when a compute call fails its precondition (a matrix that is not
\* square, B of another size than A), no member of the solver has been
\* modified: the state at the failing assertion is the state before the
\* call.
C18_FailureBeforeAnyWrite == PreconditionFailed => eig_call.written = {}

\* the generalized compute checks its arguments before it writes anything
GeneralizedFailureBeforeAnyWrite ==
  (PreconditionFailed /\ eig_call.kind = "generalized") =>
    eig_call.written = {}

\* the generalized compute fails its precondition on an object that holds
\* the results of an earlier call
GeneralizedFailureReached ==
  ~( /\ PreconditionFailed
     /\ eig_call.kind = "generalized"
     /\ eig_call.matB.rows # eig_call.matA.rows
     /\ eig_requested # "none" )

\* the standard compute that fails its precondition has written
\* m_eigenvectorsOk and nothing else
StandardFailureWritesFlagOnly ==
  (PreconditionFailed /\ eig_call.kind = "compute") =>
    eig_call.written \subseteq {"m_eigenvectorsOk"}

(***************************************************************************)
(* Properties of ei_dogleg.                                                *)
(***************************************************************************)
DoglegReturned == dl_pc = "returned"

DoglegN == Cardinality(DOMAIN dl_diag)

\* R[i][j], i <= j, of the factor passed at entry
FactorAt(i, j) == dl_entry.r[PackedIndex(DoglegN, i, j)]

NonzeroDiagonal == \A j \in Idx(DoglegN) : ~IsZero(FactorAt(j, j))

RECURSIVE UpperRowTimes(_, _, _)
UpperRowTimes(x, i, j) ==
  IF j >= DoglegN THEN QZero
  ELSE QAdd(QMul(FactorAt(i, j), x[j]), UpperRowTimes(x, i, j + 1))

\* R * x
UpperTimes(x) == [i \in Idx(DoglegN) |-> UpperRowTimes(x, i, i)]

Scaled(x) == [j \in Idx(DoglegN) |-> QMul(dl_entry.diag[j], x[j])]

\* a scan read past the end of the packed factor
OutOfRangeRead ==
  \E j \in DOMAIN dl_out.scan : \E l \in dl_out.scan[j] : l \notin DOMAIN dl_r

IdentityCase ==
  /\ DoglegN = 3
  /\ dl_entry.r = PackedFactor(0, 3)
  /\ dl_entry.diag = [j \in Idx(3) |-> QOne]
  /\ dl_entry.qtb = Qtb(0, 3)
  /\ dl_entry.delta = QI(10)

\* C5: with a non-singular R the back substitution yields x_gn with
\* R * x_gn = qtb, and when ||diag .* x_gn|| <= delta the call returns
\* x = x_gn; for R = identity (n = 3), diag = [1,1,1], qtb = [3,4,0],
\* delta = 10 the returned x is qtb.
C5_GaussNewtonAccepted ==
  (DoglegReturned /\ NonzeroDiagonal) =>
    /\ UpperTimes(dl_out.gn) = dl_entry.qtb
    /\ NormLe(Scaled(dl_out.gn), DoglegN, dl_entry.delta) =>
         (dl_x = dl_out.gn /\ UpperTimes(dl_x) = dl_entry.qtb)
    /\ IdentityCase => dl_x = dl_entry.qtb

\* the Gauss-Newton step of a factor with non-zero entries off the diagonal
\* is accepted and replaces what x held at entry
C5_Witness ==
  /\ DoglegReturned
  /\ NonzeroDiagonal
  /\ DoglegN = 3
  /\ ~IsZero(FactorAt(0, 1)) /\ ~IsZero(FactorAt(1, 2))
  /\ NormLe(Scaled(dl_out.gn), DoglegN, dl_entry.delta)
  /\ dl_out.path = "gn"
  /\ dl_x # dl_entry.x
  /\ dl_x # dl_entry.qtb

\* the identity case of C5 occurs
IdentityCaseReturned == ~(DoglegReturned /\ IdentityCase /\ dl_x = dl_entry.qtb)

\* C6: with delta > 0 and non-zero diag entries the returned step satisfies
\* ||diag .* x|| <= delta (runs whose norms are rational and whose scans
\* stay inside the packed factor).
C6_StepInsideTrustRegion ==
  ( /\ DoglegReturned
    /\ dl_out.path # "irrational"
    /\ ~OutOfRangeRead
    /\ QLt(QZero, dl_entry.delta)
    /\ \A j \in Idx(DoglegN) : ~IsZero(dl_entry.diag[j]) )
  => NormLe(Scaled(dl_x), DoglegN, dl_entry.delta)

\* with a non-singular R the step is inside the trust region, and on its
\* boundary when the Gauss-Newton step was rejected
NonsingularStepInsideTrustRegion ==
  (DoglegReturned /\ dl_out.path # "irrational" /\ NonzeroDiagonal) =>
    /\ NormLe(Scaled(dl_x), DoglegN, dl_entry.delta)
    /\ dl_out.path # "gn" =>
         squaredNorm(Scaled(dl_x), DoglegN)
           = QMul(dl_entry.delta, dl_entry.delta)

\* the largest magnitude among R[0][j], ..., R[j][j]
ColumnMax(j) ==
  LET mags == {QAbs(FactorAt(i, j)) : i \in 0 .. j}
  IN CHOOSE m \in mags : \A a \in mags : QLe(a, m)

\* C7: for a zero diagonal entry R[j][j] the divisor of x[j] is epsmch times
\* the largest magnitude of column j of R (epsmch itself when that is
\* zero), and the scan reads exactly the packed positions of R[0][j], ...,
\* R[j][j] (runs whose scans stay inside the packed factor).
C7_ZeroPivotDivisor ==
  (DoglegReturned /\ ~OutOfRangeRead) =>
    \A j \in Idx(DoglegN) :
      IsZero(FactorAt(j, j)) =>
        /\ dl_out.scan[j] = {PackedIndex(DoglegN, i, j) : i \in 0 .. j}
        /\ dl_out.div[j] = IF IsZero(ColumnMax(j)) THEN epsmch
                           ELSE QMul(epsmch, ColumnMax(j))

\* the scan of a zero diagonal entry stays inside the packed factor
ScansInRange == DoglegReturned => ~OutOfRangeRead

\* the indices of r__ the call read outside the column scans: the back
\* substitution always, the row-by-row passes when the Gauss-Newton step
\* was rejected
RowReads ==
  GnReadIndices(DoglegN, 0, PackedSize(DoglegN))
  \cup (IF dl_out.path = "gn" THEN {} ELSE RowPassIndices(DoglegN, 0, 0))

\* the indices the column scans of the call read
ScanReads == UNION {dl_out.scan[j] : j \in DOMAIN dl_out.scan}

\* C28: every index used to read the packed factor lies in
\* [0, n(n+1)/2): in the back substitution, in the column scans of zero
\* diagonal entries, and in the two row-by-row passes.
C28_ReadsInRange ==
  DoglegReturned =>
    /\ Cardinality(DOMAIN dl_r) = PackedSize(DoglegN)
    /\ RowReads \subseteq 0 .. (PackedSize(DoglegN) - 1)
    /\ ScanReads \subseteq 0 .. (PackedSize(DoglegN) - 1)

\* the back substitution and the row-by-row passes stay inside the packed
\* factor, and the passes read every position of it
RowReadsInRange ==
  DoglegReturned =>
    /\ RowReads \subseteq 0 .. (PackedSize(DoglegN) - 1)
    /\ GnReadIndices(DoglegN, 0, PackedSize(DoglegN)) = DOMAIN dl_r
    /\ RowPassIndices(DoglegN, 0, 0) = DOMAIN dl_r

\* the scan of a zero entry R[j][j] reads the positions of R[i][j + i],
\* i = 0 .. j, which leave the factor when j + i > n - 1
ScanReadsShiftedColumn ==
  DoglegReturned =>
    \A j \in Idx(DoglegN) :
      IsZero(FactorAt(j, j)) =>
        dl_out.scan[j] = {i * DoglegN - ((i * (i - 1)) \div 2) + j : i \in 0 .. j}

\* the Gauss-Newton step was rejected and every norm of the run is rational
GaussNewtonRejected ==
  /\ DoglegReturned
  /\ dl_out.path \in {"zero gradient", "scaled gradient", "interpolated"}
  /\ QLt(QZero, dl_entry.delta)

\* C27: when the Gauss-Newton step is rejected (qnorm > delta > 0) the call
\* returns x = (1 - alpha) * min(sgnorm, delta) * wa1 + alpha * x_gn with
\* alpha in [0, 1]: alpha = delta / qnorm and sgnorm = 0 when the scaled
\* gradient is zero (x is x_gn scaled by delta / qnorm), alpha = 0 when
\* sgnorm >= delta (x is delta times the scaled-gradient direction), and
\* alpha is the closed-form value of lines 130-135 otherwise.
C27_ConvexCombination ==
  GaussNewtonRejected =>
    LET alpha == dl_out.alpha
        sgnorm == dl_out.sgnorm
        delta == dl_entry.delta
        least == IF QLe(sgnorm, delta) THEN sgnorm ELSE delta
    IN /\ \A j \in Idx(DoglegN) :
            dl_x[j] = QAdd(QMul(QMul(QSub(QOne, alpha), least), dl_out.wa1[j]),
                           QMul(alpha, dl_out.gn[j]))
       /\ QLe(QZero, alpha) /\ QLe(alpha, QOne)
       /\ dl_out.qnorm = stableNorm(Scaled(dl_out.gn), DoglegN)
       /\ QLt(delta, dl_out.qnorm)
       /\ dl_out.path = "zero gradient" =>
            /\ IsZero(dl_out.gnorm) /\ IsZero(sgnorm)
            /\ alpha = QDiv(delta, dl_out.qnorm)
            /\ dl_x = [j \in Idx(DoglegN) |-> QMul(alpha, dl_out.gn[j])]
       /\ dl_out.path = "scaled gradient" =>
            /\ QLe(delta, sgnorm) /\ IsZero(alpha)
            /\ dl_x = [j \in Idx(DoglegN) |-> QMul(delta, dl_out.wa1[j])]
       /\ dl_out.path = "interpolated" =>
            /\ QLt(sgnorm, delta)
            /\ alpha = DoglegAlpha(stableNorm(dl_entry.qtb, DoglegN),
                                   dl_out.gnorm, dl_out.qnorm, sgnorm, delta)

\* a rejected Gauss-Newton step of a non-singular factor that left through
\* the interpolated exit with 0 < alpha < 1
C27_Witness ==
  /\ GaussNewtonRejected
  /\ NonzeroDiagonal
  /\ dl_out.path = "interpolated"
  /\ QLt(QZero, dl_out.alpha) /\ QLt(dl_out.alpha, QOne)
  /\ QLt(QZero, dl_out.sgnorm)
  /\ dl_x # dl_out.gn

\* the scaled-gradient exit is taken with sgnorm > delta
ScaledGradientBeyondDelta ==
  ~(GaussNewtonRejected /\ dl_out.path = "scaled gradient"
    /\ QLt(dl_entry.delta, dl_out.sgnorm))

\* the zero-gradient exit is taken
ZeroGradientScalesGaussNewton ==
  ~(GaussNewtonRejected /\ dl_out.path = "zero gradient"
    /\ dl_x # dl_out.gn /\ dl_x # dl_entry.x)

\* the x a call with the arguments at entry returns when x holds x0 at
\* entry and reads past the end of r__ yield g
ReturnedStep(x0, g) ==
  dogleg(dl_entry.r, dl_entry.diag, dl_entry.qtb, dl_entry.delta, x0, g).x

\* C29: the returned x depends only on r, diag, qtb and delta: a run that
\* differs only in what x held at entry returns the same x.
C29_StartValueIgnored ==
  DoglegReturned =>
    \E g \in Garbage :
      /\ dl_x = ReturnedStep(dl_entry.x, g)
      /\ \A x0 \in [Idx(DoglegN) -> StartValues] : ReturnedStep(x0, g) = dl_x

\* a call for n = 3 that entered with x = [7, 7, 7], took the row sums of
\* a factor with non-zero entries off the diagonal and returned another x
C29_Witness ==
  /\ DoglegReturned
  /\ DoglegN = 3
  /\ dl_entry.x = [j \in Idx(3) |-> QI(7)]
  /\ ~IsZero(FactorAt(0, 1)) /\ ~IsZero(FactorAt(1, 2))
  /\ dl_out.path # "irrational"
  /\ dl_x # dl_entry.x
  /\ \A j \in Idx(3) : ~IsZero(dl_x[j])

\* C17: on return the packed factor, diag and qtb hold what they held at
\* entry, on every path; only x may differ.
C17_OnlyXWritten ==
  DoglegReturned =>
    /\ dl_r = dl_entry.r
    /\ dl_diag = dl_entry.diag
    /\ dl_qtb = dl_entry.qtb
    /\ dl_delta = dl_entry.delta

\* a call that substituted a pivot for a zero diagonal entry of R, left
\* through the interpolated exit and changed x
C17_Witness ==
  /\ DoglegReturned
  /\ \E j \in Idx(DoglegN) :
       IsZero(FactorAt(j, j)) /\ dl_out.div[j] # FactorAt(j, j)
  /\ dl_out.path = "interpolated"
  /\ dl_x # dl_entry.x
  /\ dl_r = dl_entry.r

\* the call has returned through the given exit with a substituted pivot
ReturnedThrough(path) ==
  /\ DoglegReturned
  /\ dl_out.path = path
  /\ \E j \in Idx(DoglegN) : IsZero(FactorAt(j, j))

\* each of the other three exits is taken with a substituted pivot
GaussNewtonExitNotTaken == ~ReturnedThrough("gn")

ZeroGradientExitNotTaken == ~ReturnedThrough("zero gradient")

ScaledGradientExitNotTaken == ~ReturnedThrough("scaled gradient")

(***************************************************************************)
(* Properties of AlignedBox.                                               *)
(***************************************************************************)
DimReturned == box_pc = "built" /\ box_ret.op = "dim"

DistanceReturned ==
  box_pc = "built" /\ box_ret.op = "squaredExteriorDistance"

\* C21: dim() of a box built with AlignedBox(_dim) is the ambient dimension
\* (the compile-time one of a fixed-size box, _dim of a dynamic one), so the
\* loop of squaredExteriorDistance visits every coordinate.
C21_DimIsAmbient ==
  /\ DimReturned => box_ret.value = box_dim
  /\ DistanceReturned => box_ret.visited = box_dim

\* a fixed-size box reports its compile-time dimension and the loop of
\* squaredExteriorDistance visits every coordinate
FixedBoxDimIsAmbient ==
  box_ambient # Dynamic =>
    /\ DimReturned => box_ret.value = box_ambient
    /\ DistanceReturned =>
         /\ box_ret.visited = box_ambient
         /\ box_ret.value =
              ExteriorLoop(b0, box_ret.p, 0, box_ambient, 0).value

\* a dynamic box built with AlignedBox(_dim) reports _dim - 1 and the loop
\* of squaredExteriorDistance stops before the last coordinate
DynamicBoxDimOneShort ==
  box_ambient = Dynamic =>
    /\ DimReturned => box_ret.value = box_dim - 1
    /\ DistanceReturned => box_ret.visited = box_dim - 1

\* no call returns a distance other than the one over every coordinate
\* (a dynamic box does: the point differs from the box in the last
\* coordinate only)
DistanceOverEveryCoordinate ==
  DistanceReturned =>
    box_ret.value = ExteriorLoop(b0, box_ret.p, 0, box_dim, 0).value

\* C22: b2, the copy of b0 extended by b1, contains b0 and b1, and b2
\* clamped by b0 is exactly b0.
C22_ExtendThenClamp ==
  /\ box_pc = "copied" => contains(b2, b0) /\ contains(b2, b1)
  /\ box_pc = "clamped" => b2 = b0

\* the clamp has run on a non-empty b0 that b1 reaches out of in some
\* coordinate, so that the extension had grown the box
C22_Witness ==
  /\ box_pc = "clamped"
  /\ ~isEmpty(b0)
  /\ ~isEmpty(b1)
  /\ ~contains(b0, b1)
  /\ extend(b0, b1) # b0

\* the same for an empty b0
ClampOfEmptyBoxNotReached ==
  ~(box_pc = "clamped" /\ isEmpty(b0) /\ ~isEmpty(b1))

(***************************************************************************)
(* Storage accesses of the column-major factorization.                     *)
(***************************************************************************)
ColumnMajorComputeRan == lu_pc \in {"ready", "aborted"} /\ ~m_lu.rowMajor

\* C30: every coefficient the column-major compute() reads or writes is on
\* the diagonal or stored in the skyline profile, whatever the profile:
\* each lower iterator is valid when its value is read as the multiplier,
\* each pivot-row upper value read is stored, and coeffRefLower(rrow,
\* row+i+1) addresses a stored coefficient.
C30_AccessesInsideProfile ==
  ColumnMajorComputeRan => \A a \in ComputeAccesses(m_lu) : a.stored

\* the factorization stops on an assertion exactly when one of the
\* coeffRefLower positions it addresses is not stored
AbortedOnUnstoredLower ==
  ColumnMajorComputeRan =>
    (lu_pc = "aborted" <=>
       \E a \in ComputeAccesses(m_lu) :
         a.via = "coeffRefLower" /\ ~a.stored)

\* on a full profile every access is stored
FullProfileAccessesInside ==
  (ColumnMajorComputeRan /\ FullProfile(m_lu)) =>
    \A a \in ComputeAccesses(m_lu) : a.stored

\* each of the three kinds of access leaves the profile on some matrix
LowerIteratorNeverInvalid ==
  ColumnMajorComputeRan =>
    \A a \in ComputeAccesses(m_lu) : a.via = "lIt" => a.stored

PivotRowIteratorNeverInvalid ==
  ColumnMajorComputeRan =>
    \A a \in ComputeAccesses(m_lu) : a.via = "uItPivot" => a.stored

LowerUpdateNeverOutside ==
  ColumnMajorComputeRan =>
    \A a \in ComputeAccesses(m_lu) : a.via = "coeffRefLower" => a.stored

(***************************************************************************)
(* Properties of the deflation loop and of ei_tridiagonal_qr_step.         *)
(***************************************************************************)
InLoop == qr_pc \in {"deflate", "find", "step"}

StepRan == qr_last.start >= 0

\* C23: the loop is left only with end = 0; while it runs every subdiag[k]
\* with k >= end is zero, and no QR step writes such an entry; so at the
\* sort subdiag[0 .. n-2] is zero throughout.
C23_ExitOnlyAtZero ==
  /\ InLoop =>
       /\ \A k \in qr_end .. (qr_n - 2) : qr_subdiag[k] = "zero"
       /\ StepRan => qr_last.subdiag \cap (qr_last.end .. (qr_n - 2)) = {}
  /\ qr_pc = "sort" =>
       /\ qr_end = 0
       /\ \A k \in Idx(qr_n - 1) : qr_subdiag[k] = "zero"

\* the sort is reached on a 3 x 3 matrix after a QR step on the whole
\* matrix and a later one on a smaller block
C23_Witness ==
  /\ qr_pc = "sort"
  /\ qr_n = 3
  /\ StepRan
  /\ qr_last.start = 0
  /\ qr_last.end = 1

\* every ei_tridiagonal_qr_step call is on the largest unreduced trailing
\* block
BlockIsLargestUnreduced ==
  qr_pc = "step" =>
    /\ 0 <= qr_start
    /\ qr_start < qr_end
    /\ qr_end <= qr_n - 1
    /\ \A k \in qr_start .. (qr_end - 1) : qr_subdiag[k] # "zero"
    /\ qr_start = 0 \/ qr_subdiag[qr_start - 1] = "zero"

\* C24: each call of ei_tridiagonal_qr_step is on the largest unreduced
\* trailing block (0 <= start < end <= n-1, subdiag non-zero on start ..
\* end-1, start = 0 or subdiag[start-1] = 0), and the denominator of the
\* Wilkinson shift, td + sign(td) * sqrt(td^2 + e2), is not zero.
C24_BlockAndShift ==
  /\ BlockIsLargestUnreduced
  /\ qr_pc = "step" =>
       \A tdZero \in TdIsZero(qr_diag[qr_end - 1], qr_diag[qr_end]) :
         ~DenominatorIsZero(tdZero, qr_subdiag[qr_end - 1])

\* the denominator is not zero when the square of subdiag[end-1] does not
\* underflow
ShiftDefinedWithoutUnderflow ==
  (qr_pc = "step" /\ qr_subdiag[qr_end - 1] = "normal") =>
    \A tdZero \in TdIsZero(qr_diag[qr_end - 1], qr_diag[qr_end]) :
      ~DenominatorIsZero(tdZero, qr_subdiag[qr_end - 1])

\* no step computes its shift as 0 / 0
ShiftNeverDividesZeroByZero == ~(StepRan /\ qr_last.denominatorZero)

\* C25: one ei_tridiagonal_qr_step on [start, end] makes the end-start
\* rotations k = start, ..., end-1 in this order, writes diag[start..end],
\* subdiag[start..end-1] and, if eigenvectors were requested, columns
\* start..end of Q and nothing else; Q is not written otherwise.
C25_StepFrame ==
  StepRan =>
    /\ qr_last.rotations =
         [i \in 1 .. (qr_last.end - qr_last.start) |-> qr_last.start + i - 1]
    /\ qr_last.diag = qr_last.start .. qr_last.end
    /\ qr_last.subdiag = qr_last.start .. (qr_last.end - 1)
    /\ qr_last.Q = (IF qr_vectors THEN qr_last.start .. qr_last.end ELSE {})
    /\ \A k \in DOMAIN qr_last.keptDiag : qr_diag[k] = qr_last.keptDiag[k]
    /\ \A j \in DOMAIN qr_last.keptQ : qr_Q[j] = qr_last.keptQ[j]
    /\ qr_pc = "deflate" =>
         \A k \in DOMAIN qr_last.keptSubdiag :
           qr_subdiag[k] = qr_last.keptSubdiag[k]
    /\ ~qr_vectors => \A j \in DOMAIN qr_Q : qr_Q[j] = "tridiagonalized"

\* a step with eigenvectors on a block shorter than the matrix has just
\* returned: entries of diag, subdiag and columns of Q lie outside it
C25_Witness ==
  /\ qr_pc = "deflate"
  /\ StepRan
  /\ qr_vectors
  /\ DOMAIN qr_last.keptDiag # {}
  /\ DOMAIN qr_last.keptSubdiag # {}
  /\ \E j \in DOMAIN qr_Q : qr_Q[j] = "rotated"
  /\ \E j \in DOMAIN qr_Q : qr_Q[j] = "tridiagonalized"

\* a step of two rotations on the whole 3 x 3 matrix
TwoRotationsNotReached == ~(StepRan /\ qr_last.rotations = <<0, 1>>)

\* a step without eigenvectors
StepWithoutVectorsNotReached == ~(StepRan /\ ~qr_vectors)

\* C26: for every real symmetric input with n > 1 the loop reaches end = 0
\* and compute goes on to the sort.
C26_Terminates == <>(qr_pc = "sort")

\* once an entry of the block is NaN the loop is never left
NaNNeverLeaves ==
  (\E k \in DOMAIN qr_subdiag : qr_subdiag[k] = "nan") => qr_pc # "sort"

\* without a 0 / 0 shift the loop is left
TerminatesUnlessShiftUndefined ==
  <>(qr_pc = "sort" \/ (StepRan /\ qr_last.denominatorZero))

====
